---- MODULE Spec2Model ----
(***************************************************************************)
(* Verification model of the agent trading engine of greaterdan/Mira:      *)
(*   - the agent trade cache            (lib/agents/cache.ts)               *)
(*   - the trade generation engine      (lib/agents/engine.ts)              *)
(*   - the agent trade generator        (lib/agents/generator.ts)           *)
(*   - the cycle runner and scheduler   (lib/agents/execution.js)           *)
(*   - the market source adapter        (lib/markets/polymarket.ts)         *)
(* Each part has its own specification over the shared variables.          *)
(***************************************************************************)
EXTENDS Integers, Sequences, FiniteSets, TLC

VARIABLES
    clock,          \* Date.now(), in milliseconds
    agentCache,     \* cache.ts: agentCache, agentId -> entry (or NoEntry)
    arrays,         \* the JavaScript arrays holding market-id lists, by reference
    lastGet,        \* the last getCachedAgentTrades call: arguments and result
    sha,            \* the sha256 words computed so far, by seed
    hashBound,      \* whether the identifier marketHash of engine.ts is bound
    engineRuns,     \* the generateTradeForMarket calls made: inputs, environment, result
    gen,            \* generator.ts: the generateAgentTrades call in progress or returned
    started,        \* execution.js: startScheduler has been called
    intervalId,     \* execution.js: the interval timer is armed
    isRunning,      \* execution.js: the in-flight flag of runCycle
    inFlight,       \* the number of runTradingCycle invocations that have not returned
    ticks,          \* the timer ticks fired so far, and what the last step did with one
    cycle,          \* the runTradingCycle invocation in progress
    marketCache,    \* polymarket.ts: marketCache
    upstreamVersion,\* the market list the upstream API currently serves
    lastCycle,      \* the runTradingCycle invocation that has just returned
    saveLog,        \* persistence.ts: the saveTrade calls made so far, in order
    lastLoad,       \* persistence.ts: the last loadTrades call and what it resolved with
    agentRun,       \* execution.js: the runAgentCycle invocation in progress or resolved
    lastFetch,      \* polymarket.ts: the last fetchAllMarkets call and its outcome
    refreshed,      \* the market list of the last refresh that succeeded, if any
    fetching,       \* polymarket.ts: the upstream market requests in flight
    mapRun,         \* polymarket.ts: the raw records of one refresh and the markets kept
    newsCache,      \* aggregator.ts: newsCache
    newsRun,        \* aggregator.ts: the last fetchLatestNews call and its outcome
    aiCache,        \* ai-cache.ts: the cached AI decisions, by agent and market
    lastAIGet,      \* ai-cache.ts: the last getCachedAIDecision call and its result
    genCalls,       \* generator.ts: concurrent generateAgentTrades calls of one agent
    tunerRun        \* adaptive tuning: the trades given to computePerformanceSnapshot and its result

cacheVars == <<clock, agentCache, arrays, lastGet>>
engineVars == <<sha, hashBound, engineRuns>>
genVars == <<gen>>
schedVars == <<started, intervalId, isRunning, inFlight, ticks, cycle, marketCache,
               upstreamVersion, lastCycle>>
persistVars == <<saveLog, lastLoad>>
agentVars == <<agentRun>>
marketVars == <<lastFetch, refreshed, fetching>>
moreVars == <<mapRun, newsCache, newsRun, aiCache, lastAIGet, genCalls, tunerRun>>
laterVars == <<persistVars, agentVars, marketVars, moreVars>>
olderVars == <<cacheVars, engineVars, genVars, schedVars, persistVars, agentVars, marketVars>>
vars == <<clock, agentCache, arrays, lastGet, sha, hashBound, engineRuns, gen,
          started, intervalId, isRunning, inFlight, ticks, cycle, marketCache,
          upstreamVersion, lastCycle, saveLog, lastLoad, agentRun, lastFetch,
          refreshed, fetching, mapRun, newsCache, newsRun, aiCache, lastAIGet,
          genCalls, tunerRun>>

(***************************************************************************)
(* Bounds of the model                                                      *)
(***************************************************************************)
TickMs == 5000          \* granularity of the clock
MaxClock == 30000       \* the clock stops here

(***************************************************************************)
(* Agent profiles (domain.ts, documented in the complete documentation)     *)
(***************************************************************************)
CacheAgents == {"GROK_4", "CLAUDE_4_5"}

(***************************************************************************)
(* Agent trade cache: cache.ts                                              *)
(***************************************************************************)
CACHE_TTL_MS == 30000
FRESH_AI_AGE_S == 20
EMPTY_RETRY_AGE_S == 10

MarketIdUniverse == {"m1", "m2"}

\* markets.map(m => m.id).sort(): the sorted id lists a caller can pass
SortedIdLists == {<<"m1">>, <<"m2">>, <<"m1", "m2">>}

\* the trade lists a caller can store (the trades themselves are opaque here)
TradeLists == {<<>>, <<"t1">>}

NoEntry == [present |-> FALSE]

\* lastGet describes the call that has just returned; any other step clears it
NoGet == [called |-> FALSE]

\* the array references: the caller's own array, and the copy owned by each entry
CallerRef == "caller"
ArrayRefs == {CallerRef} \cup CacheAgents

\* mutant: marketIds stored without the copy (the entry shares the caller's array)
AliasedIdsRef(agentId, marketIdsRef) == marketIdsRef

\* [...marketIds]: the entry owns a fresh copy of the caller's array
CopiedIdsRef(agentId, marketIdsRef) == agentId

\* cache.ts 101-105: the entry written by setCachedAgentTrades. idsAtSet is a
\* history field: the contents of marketIds when the entry was written.
NewEntry(agentId, trades, marketIdsRef, t, heap) ==
    [present |-> TRUE,
     trades |-> trades,
     generatedAt |-> t,
     marketIds |-> CopiedIdsRef(agentId, marketIdsRef),
     idsAtSet |-> heap[marketIdsRef]]

\* cache.ts 55-66: length check, then element-wise comparison over entry.marketIds
MarketIdsMatch(stored, current) ==
    /\ Len(stored) = Len(current)
    /\ \A i \in 1..Len(stored) : stored[i] = current[i]

\* mutant: only the TTL and the market ids decide (no 20 s and no empty-set rule)
CacheLookupTtlOnly(entry, stored, currentMarketIds, t) ==
    IF ~entry.present THEN [hit |-> FALSE, trades |-> <<>>, deleted |-> FALSE]
    ELSE IF t - entry.generatedAt >= 30000 \/ ~MarketIdsMatch(stored, currentMarketIds)
      THEN [hit |-> FALSE, trades |-> <<>>, deleted |-> TRUE]
    ELSE [hit |-> TRUE, trades |-> entry.trades, deleted |-> FALSE]

\* mutant: a lookup with another id list misses but keeps the entry
CacheLookupKeepsOnMismatch(entry, stored, currentMarketIds, t) == IF ~entry.present THEN [hit |-> FALSE, trades |-> <<>>, deleted |-> FALSE] ELSE IF t - entry.generatedAt >= CACHE_TTL_MS THEN [hit |-> FALSE, trades |-> <<>>, deleted |-> TRUE] ELSE IF ~MarketIdsMatch(stored, currentMarketIds) THEN [hit |-> FALSE, trades |-> <<>>, deleted |-> FALSE] ELSE IF t - entry.generatedAt > FRESH_AI_AGE_S * 1000 \/ (Len(entry.trades) = 0 /\ t - entry.generatedAt < EMPTY_RETRY_AGE_S * 1000) THEN [hit |-> FALSE, trades |-> <<>>, deleted |-> TRUE] ELSE [hit |-> TRUE, trades |-> entry.trades, deleted |-> FALSE]

\* mutant: an empty list aged exactly 10 s is still refused
CacheLookupEmptyAtTen(entry, stored, currentMarketIds, t) == IF ~entry.present THEN [hit |-> FALSE, trades |-> <<>>, deleted |-> FALSE] ELSE IF t - entry.generatedAt >= CACHE_TTL_MS \/ ~MarketIdsMatch(stored, currentMarketIds) \/ t - entry.generatedAt > FRESH_AI_AGE_S * 1000 \/ (Len(entry.trades) = 0 /\ t - entry.generatedAt <= EMPTY_RETRY_AGE_S * 1000) THEN [hit |-> FALSE, trades |-> <<>>, deleted |-> TRUE] ELSE [hit |-> TRUE, trades |-> entry.trades, deleted |-> FALSE]

\* cache.ts 41-84: the decision of getCachedAgentTrades on an entry whose
\* marketIds array currently holds `stored`, at time t
CacheLookup(entry, stored, currentMarketIds, t) ==
    IF ~entry.present THEN [hit |-> FALSE, trades |-> <<>>, deleted |-> FALSE]
    ELSE LET age == t - entry.generatedAt
         IN IF age >= CACHE_TTL_MS
              THEN [hit |-> FALSE, trades |-> <<>>, deleted |-> TRUE]
            ELSE IF ~MarketIdsMatch(stored, currentMarketIds)
              THEN [hit |-> FALSE, trades |-> <<>>, deleted |-> TRUE]
            \* ageSeconds = age / 1000 > 20
            ELSE IF age > FRESH_AI_AGE_S * 1000
              THEN [hit |-> FALSE, trades |-> <<>>, deleted |-> TRUE]
            \* entry.trades.length === 0 && ageSeconds < 10
            ELSE IF Len(entry.trades) = 0 /\ age < EMPTY_RETRY_AGE_S * 1000
              THEN [hit |-> FALSE, trades |-> <<>>, deleted |-> TRUE]
            ELSE [hit |-> TRUE, trades |-> entry.trades, deleted |-> FALSE]

StoredIds(entry) == IF entry.present THEN arrays[entry.marketIds] ELSE <<>>

\* getCachedAgentTrades(agentId, currentMarketIds)
GetCachedAgentTrades(agentId, currentMarketIds) ==
    /\ UNCHANGED <<engineVars, genVars, schedVars, laterVars>>
    /\ LET entry == agentCache[agentId]
           r == CacheLookup(entry, StoredIds(entry), currentMarketIds, clock)
       IN /\ agentCache' = IF r.deleted THEN [agentCache EXCEPT ![agentId] = NoEntry]
                           ELSE agentCache
          /\ arrays' = IF r.deleted THEN [arrays EXCEPT ![entry.marketIds] = <<>>]
                       ELSE arrays
          /\ lastGet' = [called |-> TRUE, agentId |-> agentId, ids |-> currentMarketIds,
                         hit |-> r.hit, trades |-> r.trades,
                         entry |-> entry, stored |-> StoredIds(entry), at |-> clock]
          /\ UNCHANGED clock

\* setCachedAgentTrades(agentId, trades, marketIds): marketIds is the caller's array
SetCachedAgentTrades(agentId, trades) ==
    /\ UNCHANGED <<engineVars, genVars, schedVars, laterVars>>
    /\ LET e == NewEntry(agentId, trades, CallerRef, clock, arrays)
       IN /\ agentCache' = [agentCache EXCEPT ![agentId] = e]
          /\ arrays' = [arrays EXCEPT ![e.marketIds] = arrays[CallerRef]]
          /\ lastGet' = NoGet
          /\ UNCHANGED clock

\* clearAgentCache()
ClearAgentCache ==
    /\ agentCache' = [a \in CacheAgents |-> NoEntry]
    /\ arrays' = [r \in ArrayRefs |-> IF r = CallerRef THEN arrays[r] ELSE <<>>]
    /\ lastGet' = NoGet
    /\ UNCHANGED clock
    /\ UNCHANGED <<engineVars, genVars, schedVars, laterVars>>

\* the caller builds, or mutates in place, its own market-id array
CallerWritesIds(ids) ==
    /\ arrays[CallerRef] # ids
    /\ arrays' = [arrays EXCEPT ![CallerRef] = ids]
    /\ lastGet' = NoGet
    /\ UNCHANGED <<clock, agentCache>>
    /\ UNCHANGED <<engineVars, genVars, schedVars, laterVars>>

\* time passes
AdvanceClock ==
    /\ clock + TickMs <= MaxClock
    /\ clock' = clock + TickMs
    /\ lastGet' = NoGet
    /\ UNCHANGED <<agentCache, arrays>>
    /\ UNCHANGED <<engineVars, genVars, schedVars, laterVars>>

EngineIdle ==
    /\ sha = <<>>
    /\ hashBound = FALSE
    /\ engineRuns = <<>>

\* no generateAgentTrades call has been made
NoGeneration ==
    [pc |-> "idle", calls |-> 0, agentId |-> "", aiConfigured |-> FALSE,
     ai |-> [ok |-> FALSE], topMarkets |-> <<>>, i |-> 0, trades |-> <<>>, nowMs |-> 0,
     result |-> <<>>, cached |-> FALSE, candidates |-> <<>>, attempts |-> <<>>]

GenIdle == gen = NoGeneration

\* execution.js ALL_AGENT_IDS = Object.keys(AGENT_PROFILES), in key order
ALL_AGENT_IDS == <<"GROK_4", "GPT_5", "CLAUDE_4_5">>
AgentIdSet == {ALL_AGENT_IDS[k] : k \in 1..Len(ALL_AGENT_IDS)}

\* a market list is named by the upstream version it came from; 0 is the empty
\* list. cycle.markets is read from pc "agents" on, obs in st "generating".
NoAgentCycle == [st |-> "none", obs |-> 0, outcome |-> "none"]
NoCycle == [pc |-> "idle", markets |-> 0, agent |-> [a \in AgentIdSet |-> NoAgentCycle]]
NoMarketCache == [present |-> FALSE, markets |-> 0, cachedAt |-> 0, ref |-> 0]
NoLastCycle == [returned |-> FALSE]
NoTick == [count |-> 0, last |-> "none", cycles |-> 0, idle |-> 0, ended |-> "none"]

\* the module has just been loaded: no scheduler, no cached markets
SchedIdle ==
    /\ started = FALSE
    /\ intervalId = FALSE
    /\ isRunning = FALSE
    /\ inFlight = 0
    /\ ticks = NoTick
    /\ cycle = NoCycle
    /\ marketCache = NoMarketCache
    /\ upstreamVersion = 1
    /\ lastCycle = NoLastCycle

\* persistence.ts: loadTrades has not been called
NoLoad == [called |-> FALSE, agentId |-> "", result |-> <<>>]

\* execution.js: runAgentCycle has not been called
NoPortfolio == [exists |-> FALSE]
NoAgentRun ==
    [pc |-> "idle", cycles |-> 0, agentId |-> "", markets |-> <<>>,
     portfolio |-> NoPortfolio, saved |-> NoPortfolio, cacheBefore |-> NoEntry,
     failedAt |-> "none", genBefore |-> 0, trades |-> <<>>, prevOpen |-> <<>>,
     result |-> [settled |-> "none"]]

\* polymarket.ts: fetchAllMarkets has not been called, no refresh has succeeded
NoFetch == [called |-> FALSE, seen |-> {}]
NoRefresh == [ever |-> FALSE, markets |-> 0]

\* polymarket.ts: no refresh has mapped raw records
NoMapRun == [done |-> FALSE, raw |-> <<>>, serverSide |-> FALSE, markets |-> <<>>]
\* aggregator.ts: newsCache is null, fetchLatestNews has not been called
NoNewsCache == [present |-> FALSE, articles |-> <<>>, cachedAt |-> 0]
NoNewsRun == [called |-> FALSE]
\* ai-cache.ts: getCachedAIDecision has not been called
NoAIGet == [called |-> FALSE]
\* adaptive tuning: computePerformanceSnapshot has not been called
NoTunerRun == [done |-> FALSE, trades |-> <<>>]

\* the modules of this part have just been loaded
MoreIdle ==
    /\ mapRun = NoMapRun
    /\ newsCache = NoNewsCache
    /\ newsRun = NoNewsRun
    /\ aiCache = <<>>
    /\ lastAIGet = NoAIGet
    /\ genCalls = <<>>
    /\ tunerRun = NoTunerRun

\* no adapter call, agent cycle or market fetch has been made
LaterIdle ==
    /\ saveLog = <<>>
    /\ lastLoad = NoLoad
    /\ agentRun = NoAgentRun
    /\ lastFetch = NoFetch
    /\ refreshed = NoRefresh
    /\ fetching = 0
    /\ MoreIdle

\* the cache module has just been loaded
CacheIdle ==
    /\ clock = 0
    /\ agentCache = [a \in CacheAgents |-> NoEntry]
    /\ arrays = [r \in ArrayRefs |-> IF r = CallerRef THEN <<"m1">> ELSE <<>>]
    /\ lastGet = NoGet

CacheInit ==
    /\ CacheIdle
    /\ EngineIdle
    /\ GenIdle
    /\ SchedIdle
    /\ LaterIdle

CacheNext ==
    \/ \E a \in CacheAgents, ids \in SortedIdLists : GetCachedAgentTrades(a, ids)
    \/ \E a \in CacheAgents, ts \in TradeLists : SetCachedAgentTrades(a, ts)
    \/ ClearAgentCache
    \/ \E ids \in SortedIdLists : CallerWritesIds(ids)
    \/ AdvanceClock

SpecCache == CacheInit /\ [][CacheNext]_vars

(***************************************************************************)
(* Exact arithmetic on the numbers of engine.ts. A number is a fraction     *)
(* <<n, d>> in lowest terms with d > 0 (floating-point rounding error is    *)
(* not modelled).                                                           *)
(***************************************************************************)
RECURSIVE GCD(_, _)
GCD(a, b) == IF b = 0 THEN a ELSE GCD(b, a % b)

Abs(x) == IF x < 0 THEN -x ELSE x

Frac(n, d) ==
    LET g == GCD(Abs(n), Abs(d))
        sgn == IF d < 0 THEN -1 ELSE 1
    IN IF n = 0 THEN <<0, 1>> ELSE <<sgn * (n \div g), sgn * (d \div g)>>

Whole(n) == <<n, 1>>
\* x * y, cancelling across before multiplying
Mul(x, y) ==
    LET a == Frac(x[1], y[2])
        b == Frac(y[1], x[2])
    IN Frac(a[1] * b[1], a[2] * b[2])
Add(x, y) ==
    LET g == GCD(x[2], y[2])
    IN Frac(x[1] * (y[2] \div g) + y[1] * (x[2] \div g), (x[2] \div g) * y[2])
Neg(x) == <<-x[1], x[2]>>
Less(x, y) == Add(x, Neg(y))[1] < 0
Leq(x, y) == Add(x, Neg(y))[1] <= 0
MathMin(x, y) == IF Less(y, x) THEN y ELSE x
MathMax(x, y) == IF Less(x, y) THEN y ELSE x
\* Math.round: the nearest integer, halves rounded up
MathRound(x) == (2 * x[1] + x[2]) \div (2 * x[2])
\* JavaScript %: the sign of the result is the sign of the dividend
JsRem(a, n) == IF a < 0 THEN -((-a) % n) ELSE a % n

(***************************************************************************)
(* Agent profiles: domain.ts AGENT_PROFILES                                 *)
(***************************************************************************)
AGENT_PROFILES ==
    [GROK_4     |-> [id |-> "GROK_4", risk |-> "HIGH", maxTrades |-> 5,
                     minVolume |-> 50000, minLiquidity |-> 10000],
     GPT_5      |-> [id |-> "GPT_5", risk |-> "MEDIUM", maxTrades |-> 4,
                     minVolume |-> 100000, minLiquidity |-> 20000],
     CLAUDE_4_5 |-> [id |-> "CLAUDE_4_5", risk |-> "LOW", maxTrades |-> 5,
                     minVolume |-> 80000, minLiquidity |-> 18000]]

EngineAgents == {"GROK_4", "GPT_5", "CLAUDE_4_5"}

getAgentProfile(agentId) == AGENT_PROFILES[agentId]

(***************************************************************************)
(* Deterministic primitives: engine.ts 16-76                                *)
(***************************************************************************)
\* deterministicSeed: `${agentId}:${marketId}:${index}`
deterministicSeed(agentId, marketId, index) == <<agentId, marketId, index>>
\* seed + 'jitter'
JitterSeed(seed) == Append(seed, "jitter")

\* A 32-bit hash word hash.readUInt32BE(0) is represented by one hexadecimal
\* digit w: it stands for the word whose eight digits are all w, that is
\* w * 0x11111111; 0xFFFFFFFF is the word 15.
MaxWordDigit == 15
WordSamples == {0, 6, 15}

\* deterministicNumber: num / 0xFFFFFFFF
deterministicNumber(word) == Frac(word, MaxWordDigit)

\* getDeterministicSide
getDeterministicSide(scored, word) ==
    LET num == deterministicNumber(word)
        probBias == IF Less(Frac(1, 2), scored.currentProbability)
                    THEN Frac(6, 10) ELSE Frac(4, 10)
    IN IF Less(num, probBias) THEN "YES" ELSE "NO"

\* getDeterministicConfidence
getDeterministicConfidence(scored, agent, jitterWord) ==
    LET baseConfidence == Frac(scored.score, 100)
        riskMultiplier == IF agent.risk = "HIGH" THEN Frac(11, 10)
                          ELSE IF agent.risk = "LOW" THEN Frac(9, 10) ELSE Whole(1)
        jitter == Mul(Add(deterministicNumber(jitterWord), Neg(Frac(1, 2))), Frac(1, 10))
    IN MathMax(Frac(4, 10),
               MathMin(Frac(95, 100), Add(Mul(baseConfidence, riskMultiplier), jitter)))

\* one reasoning bullet: its text and the number interpolated into it
Bullet(text, n) == [text |-> text, n |-> n]

\* getDeterministicReasoning
getDeterministicReasoning(scored, newsRelevance) ==
    LET c == scored.components
        r1 == IF c.volumeScore > 20 THEN <<Bullet("High trading volume", 0)>> ELSE <<>>
        r2 == IF c.liquidityScore > 15 THEN <<Bullet("Strong liquidity", 0)>> ELSE <<>>
        r3 == IF c.priceMovementScore > 10
              THEN <<Bullet("Significant price movement", 0)>> ELSE <<>>
        r4 == IF c.newsScore > 15
              THEN <<Bullet("Recent news coverage", newsRelevance.count)>> ELSE <<>>
        r5 == IF c.probScore > 7 THEN <<Bullet("Probability near 50%", 0)>> ELSE <<>>
        reasons == r1 \o r2 \o r3 \o r4 \o r5
    IN IF Len(reasons) = 0 THEN <<Bullet("Market meets minimum criteria", 0)>>
       ELSE reasons

(***************************************************************************)
(* Scored markets given to the engine (scoring.ts output, an input here)    *)
(***************************************************************************)
\* idCode is scored.id.charCodeAt(0); hash is the value the identifier
\* marketHash evaluates to for this market when it is bound at all
SM(id, idCode, category, score, probPct, priceMovementScore, newsScore, nearTerm, hash) ==
    [id |-> id, idCode |-> idCode, category |-> category, score |-> score,
     currentProbability |-> Frac(probPct, 100), nearTerm |-> nearTerm, hash |-> hash,
     components |-> [volumeScore |-> IF score >= 30 THEN 30 ELSE 10,
                     liquidityScore |-> IF score >= 50 THEN 20 ELSE 10,
                     priceMovementScore |-> priceMovementScore,
                     newsScore |-> newsScore,
                     probScore |-> IF probPct >= 45 /\ probPct <= 55 THEN 10 ELSE 2]]

ScoredSamples ==
    { SM("m1", 109, "Crypto",   50, 50, 15,  0, FALSE,  1),
      SM("w2", 119, "Politics", 90, 95,  0, 25, FALSE,  3),
      SM("d3", 100, "Sports",    5, 55,  0,  0, TRUE,   2),
      SM("m1", 109, "Tech",      8, 40,  0,  0, FALSE, 99),
      SM("w2", 119, "Crypto",   30, 55, 15,  0, FALSE, -3),
      SM("d3", 100, "Finance",  10, 10,  0, 25, FALSE,  0),
      SM("w2", 119, "Crypto",   90, 50, 15, 25, FALSE,  1),
      SM("d3", 100, "Politics", 20,  5,  0, 25, FALSE,  4) }

(***************************************************************************)
(* Personality rules: personality.ts                                        *)
(***************************************************************************)
\* applyPersonalityRules(ctx, getPersonalityRules(agent.id))
applyPersonalityRules(ctx) ==
    LET m == ctx.market
        p == m.currentProbability
        grok == /\ ctx.agent.id = "GROK_4"
                /\ m.category \in {"Crypto", "Tech"}
                /\ 2 * m.components.priceMovementScore >= 21
                /\ Leq(Frac(45, 100), p) /\ Leq(p, Frac(55, 100))
        claude == /\ ctx.agent.id = "CLAUDE_4_5"
                  /\ m.category \in {"Politics", "Elections"}
                  /\ 2 * m.components.newsScore >= 35
                  /\ (Leq(Frac(9, 10), p) \/ Leq(p, Frac(1, 10)))
        gemini == /\ ctx.agent.id = "GEMINI_2_5"
                  /\ m.category = "Sports"
                  /\ m.nearTerm
    IN IF grok THEN
           [side |-> ctx.baseSide,
            confidence |-> MathMin(Add(ctx.baseConfidence, Frac(5, 100)), Frac(95, 100)),
            sizeUsd |-> Mul(ctx.baseSizeUsd, Frac(115, 100))]
       ELSE IF claude THEN
           [side |-> ctx.baseSide,
            confidence |-> MathMax(Add(ctx.baseConfidence, Neg(Frac(5, 100))), Frac(4, 10)),
            sizeUsd |-> Mul(ctx.baseSizeUsd, Frac(75, 100))]
       ELSE IF gemini THEN
           [side |-> ctx.baseSide,
            confidence |-> MathMin(Add(ctx.baseConfidence, Frac(3, 100)), Frac(95, 100)),
            sizeUsd |-> Mul(ctx.baseSizeUsd, Frac(11, 10))]
       ELSE [side |-> ctx.baseSide, confidence |-> ctx.baseConfidence,
             sizeUsd |-> ctx.baseSizeUsd]

(***************************************************************************)
(* Trade generation: engine.ts generateTradeForMarket                       *)
(***************************************************************************)
SCORE_THRESHOLD == 8

\* mutant: only markets scored below 5 are skipped
SkipsLowScoreBelowFive(scored) == scored.score < 5

\* engine.ts 101-104: if (scored.score < 8) return null
SkipsLowScore(scored) == scored.score < SCORE_THRESHOLD
STARTING_CAPITAL == 3000
MIN_INVESTMENT == 130
MAX_REASONING == 3

RISK_BUDGET(risk) == IF risk = "LOW" THEN 80 ELSE IF risk = "MEDIUM" THEN 150 ELSE 250

\* engine.ts 242: STARTING_CAPITAL * 0.20
MAX_INVESTMENT == Mul(Whole(STARTING_CAPITAL), Frac(20, 100))

\* engine.ts 115-126: the number of web results; a failed search leaves none
WebSearchResults(web) == IF web.throws THEN 0 ELSE web.results

\* engine.ts 147-163: the decision taken from the LLM's answer
DecisionFromAI(agent, aiDecision, webResults) ==
    LET reasoning == IF webResults > 0
                     THEN SubSeq(<<Bullet("Web research", webResults)>> \o aiDecision.reasoning,
                                 1, IF Len(aiDecision.reasoning) + 1 < MAX_REASONING
                                    THEN Len(aiDecision.reasoning) + 1 ELSE MAX_REASONING)
                     ELSE aiDecision.reasoning
        confidence == IF agent.risk = "HIGH"
                        THEN MathMin(Mul(aiDecision.confidence, Frac(105, 100)), Frac(95, 100))
                      ELSE IF agent.risk = "LOW"
                        THEN MathMax(Mul(aiDecision.confidence, Frac(9, 10)), Frac(4, 10))
                      ELSE aiDecision.confidence
    IN [side |-> aiDecision.side, confidence |-> confidence, reasoning |-> reasoning,
        fallback |-> FALSE]

\* mutant: the catch branch keeps the web-research note of the LLM branch
DecisionAfterAIFailureWithWebNote(agent, scored, newsRelevance, webResults, seedWord, jitterWord) ==
    [side |-> getDeterministicSide(scored, seedWord),
     confidence |-> getDeterministicConfidence(scored, agent, jitterWord),
     reasoning |-> IF webResults > 0
                   THEN <<Bullet("Web research", webResults)>>
                        \o getDeterministicReasoning(scored, newsRelevance)
                   ELSE getDeterministicReasoning(scored, newsRelevance),
     fallback |-> TRUE]

\* engine.ts 172-175: the catch branch after a failed LLM call
DecisionAfterAIFailure(agent, scored, newsRelevance, webResults, seedWord, jitterWord) ==
    [side |-> getDeterministicSide(scored, seedWord),
     confidence |-> getDeterministicConfidence(scored, agent, jitterWord),
     reasoning |-> getDeterministicReasoning(scored, newsRelevance),
     fallback |-> TRUE]

\* engine.ts 178-181: the branch of an agent without LLM credential
DecisionWithoutAI(agent, scored, newsRelevance, seedWord, jitterWord) ==
    [side |-> getDeterministicSide(scored, seedWord),
     confidence |-> getDeterministicConfidence(scored, agent, jitterWord),
     reasoning |-> getDeterministicReasoning(scored, newsRelevance),
     fallback |-> TRUE]

\* engine.ts 129: the number of getAITradeDecision calls of one generation
LLMCallsMade(aiConfigured, ai) == IF aiConfigured THEN 1 ELSE 0

\* mutant: the per-market variation is applied after the caps
PositionSizeCapFirst(agent, scored, confidence, personalitySizeUsd, baseSizeUsd) ==
    LET raw == Mul(Mul(Mul(Whole(RISK_BUDGET(agent.risk)),
                           Add(Frac(1, 2), Mul(confidence, Whole(2)))),
                       Add(Frac(4, 10),
                           Mul(MathMin(Whole(1),
                                       MathMax(Whole(0), Frac(scored.score - 10, 40))),
                               Frac(16, 10)))),
                   Mul(personalitySizeUsd, Frac(1, baseSizeUsd)))
        capped == MathMax(Whole(MIN_INVESTMENT), MathMin(raw, MAX_INVESTMENT))
    IN MathRound(Mul(Mul(capped, Add(Whole(1), Frac(scored.idCode % 20, 100))),
                     Frac(1, 10))) * 10

\* engine.ts 204-246: position sizing, caps and rounding
PositionSize(agent, scored, confidence, personalitySizeUsd, baseSizeUsd) ==
    LET baseRisk == RISK_BUDGET(agent.risk)
        confidenceMultiplier == Add(Frac(1, 2), Mul(confidence, Whole(2)))
        normalizedScore == MathMin(Whole(1), MathMax(Whole(0), Frac(scored.score - 10, 40)))
        scoreMultiplier == Add(Frac(4, 10), Mul(normalizedScore, Frac(16, 10)))
        personalitySizeMultiplier == Mul(personalitySizeUsd, Frac(1, baseSizeUsd))
        marketVariation == Frac(scored.idCode % 20, 100)
        raw == Mul(Mul(Mul(Mul(Whole(baseRisk), confidenceMultiplier), scoreMultiplier),
                       personalitySizeMultiplier),
                   Add(Whole(1), marketVariation))
        capped == MathMax(Whole(MIN_INVESTMENT), MathMin(raw, MAX_INVESTMENT))
    IN MathRound(Mul(capped, Frac(1, 10))) * 10

\* mutant: openedAt taken from the wall clock instead of the `now` argument
OpenedAtWallClock(now, index, dateNow) == dateNow - index * 1000

\* engine.ts 254: openedAt, staggered by one second per market index
OpenedAt(now, index, dateNow) == now - index * 1000

\* engine.ts 257-277: the mock PnL of a trade that is closed at once
ClosedPnl(scored, confidence, finalInvestment) ==
    LET winProbability == MathMin(Frac(95, 100),
                                  Add(Mul(confidence, Frac(8, 10)),
                                      Mul(Frac(scored.score, 100), Frac(2, 10))))
        isWin == Less(Whole(JsRem(scored.hash, 100)), Mul(winProbability, Whole(100)))
        winMultiplier == Add(Add(Frac(3, 10), Mul(confidence, Frac(4, 10))),
                             Mul(Frac(scored.score, 100), Frac(3, 10)))
        lossMultiplier == Add(Frac(2, 10), Mul(confidence, Frac(3, 10)))
        pnl == IF isWin THEN Mul(Whole(finalInvestment), winMultiplier)
               ELSE Mul(Whole(-finalInvestment), lossMultiplier)
    IN Frac(MathRound(Mul(pnl, Whole(100))), 100)

NullPnl == [isNull |-> TRUE]
NoClosedAt == [defined |-> FALSE]

\* mutant: the mock PnL is computed for open trades as well
TradePnlAlways(shouldClose, scored, confidence, finalInvestment) == [isNull |-> FALSE, value |-> ClosedPnl(scored, confidence, finalInvestment)]

\* engine.ts 259-277: let pnl = null; if (shouldClose) { pnl = ... }
TradePnl(shouldClose, scored, confidence, finalInvestment) ==
    IF shouldClose
    THEN [isNull |-> FALSE, value |-> ClosedPnl(scored, confidence, finalInvestment)]
    ELSE NullPnl

\* engine.ts 248-299: status, timestamps, PnL and the trade object
BuildTrade(agent, scored, decision, finalInvestment, index, now, seed, dateNow) ==
    LET shouldClose == JsRem(scored.hash, 3) = 0
        openedAt == OpenedAt(now, index, dateNow)
    IN [id |-> <<agent.id, scored.id>>,
        agentId |-> agent.id,
        marketId |-> scored.id,
        side |-> decision.side,
        confidence |-> decision.confidence,
        score |-> scored.score,
        reasoning |-> decision.reasoning,
        status |-> IF shouldClose THEN "CLOSED" ELSE "OPEN",
        pnl |-> TradePnl(shouldClose, scored, decision.confidence, finalInvestment),
        investmentUsd |-> finalInvestment,
        openedAt |-> openedAt,
        closedAt |-> IF shouldClose
                     THEN [defined |-> TRUE,
                           at |-> openedAt + Abs(JsRem(scored.hash, 3600000))]
                     ELSE NoClosedAt,
        summaryDecision |-> [side |-> decision.side,
                             pct |-> MathRound(Mul(decision.confidence, Whole(100))),
                             factors |-> Len(decision.reasoning)],
        seed |-> seed]

\* The environment of one generateTradeForMarket call:
\*   web          what searchWebForMarket does: it throws, or the number of results
\*   aiConfigured isAIConfigured(agent.id)
\*   ai           what getAITradeDecision does: it throws (ok false) or a decision
\*   sha          the sha256 words of the seeds
\*   hashBound    whether the identifier marketHash is bound: engine.ts reads it
\*                (250, 255, 263) but never declares it, so reading it throws a
\*                ReferenceError unless the global scope binds it
\*   dateNow      Date.now() during the call
\* The result: kind "null" (market skipped), "throw" (an exception reaches the
\* caller) or "trade", with the number of LLM and web-search calls made.
generateTradeForMarket(agent, scored, newsRelevance, index, now, env) ==
    IF SkipsLowScore(scored)
    THEN [kind |-> "null", llmCalls |-> 0, webCalls |-> 0, fallback |-> FALSE]
    ELSE
    LET seed == deterministicSeed(agent.id, scored.id, index)
        webResults == WebSearchResults(env.web)
        llmCalls == LLMCallsMade(env.aiConfigured, env.ai)
        decision ==
            IF env.aiConfigured
            THEN IF ~env.ai.ok
                 THEN DecisionAfterAIFailure(agent, scored, newsRelevance, webResults,
                                             env.sha[seed], env.sha[JitterSeed(seed)])
                 ELSE DecisionFromAI(agent, env.ai, webResults)
            ELSE DecisionWithoutAI(agent, scored, newsRelevance,
                                   env.sha[seed], env.sha[JitterSeed(seed)])
        baseSizeUsd == 100
        personalityResult ==
            applyPersonalityRules([market |-> scored, agent |-> agent,
                                   baseSide |-> decision.side,
                                   baseConfidence |-> decision.confidence,
                                   baseSizeUsd |-> Whole(baseSizeUsd)])
        adjusted == [decision EXCEPT !.side = personalityResult.side,
                                     !.confidence = personalityResult.confidence]
        finalInvestment == PositionSize(agent, scored, adjusted.confidence,
                                        personalityResult.sizeUsd, baseSizeUsd)
    IN IF ~env.hashBound
       THEN [kind |-> "throw", llmCalls |-> llmCalls, webCalls |-> 1,
             fallback |-> decision.fallback, baseConfidence |-> decision.confidence]
       ELSE [kind |-> "trade", llmCalls |-> llmCalls, webCalls |-> 1,
             fallback |-> decision.fallback, baseConfidence |-> decision.confidence,
             trade |-> BuildTrade(agent, scored, adjusted, finalInvestment, index, now,
                                  seed, env.dateNow)]

(***************************************************************************)
(* Specification of the engine: one generateTradeForMarket call, and a      *)
(* second call with the same arguments in a possibly different environment  *)
(***************************************************************************)
MaxIndex == 1           \* the market indexes 0..MaxIndex
NowMs == 100000         \* the `now` argument

WebOutcomes == {[throws |-> TRUE, results |-> 0],
                [throws |-> FALSE, results |-> 0],
                [throws |-> FALSE, results |-> 2]}

AIFails == [ok |-> FALSE]
AIOutcomes == {AIFails,
               [ok |-> TRUE, side |-> "NO", confidence |-> Frac(8, 10),
                reasoning |-> <<Bullet("ai-1", 0), Bullet("ai-2", 0), Bullet("ai-3", 0)>>]}

\* computeNewsRelevance(scored, newsArticles), as far as the engine reads it
NewsRelevanceOf(scored) == [count |-> IF scored.components.newsScore > 0 THEN 3 ELSE 0]

\* the seeds whose sha256 word a call reads
SeedsRead(agentId, scored, index, aiConfigured, ai) ==
    IF ~SkipsLowScore(scored) /\ (~aiConfigured \/ ~ai.ok)
    THEN {deterministicSeed(agentId, scored.id, index),
          JitterSeed(deterministicSeed(agentId, scored.id, index))}
    ELSE {}

\* sha256 is a function: a seed hashed before keeps its word
ShaExtensions(seeds) ==
    LET new == {x \in seeds : x \notin DOMAIN sha}
    IN {sha @@ f : f \in [new -> WordSamples]}

RunCall(agentId, scored, index, now, web, aiConfigured, ai, dateNow, words) ==
    LET env == [web |-> web, aiConfigured |-> aiConfigured, ai |-> ai, sha |-> words,
                hashBound |-> hashBound, dateNow |-> dateNow]
    IN [agentId |-> agentId, scored |-> scored, index |-> index, now |-> now,
        web |-> web, aiConfigured |-> aiConfigured, ai |-> ai, dateNow |-> dateNow,
        result |-> generateTradeForMarket(getAgentProfile(agentId), scored,
                                          NewsRelevanceOf(scored), index, now, env)]

\* a first call, on any arguments
FirstCall ==
    /\ engineRuns = <<>>
    /\ \E agentId \in EngineAgents, scored \in ScoredSamples, index \in 0..MaxIndex,
          web \in WebOutcomes, aiConfigured \in BOOLEAN, ai \in AIOutcomes :
         /\ ~aiConfigured => ai = AIFails
         /\ \E words \in ShaExtensions(SeedsRead(agentId, scored, index, aiConfigured, ai)) :
              /\ sha' = words
              /\ engineRuns' = <<RunCall(agentId, scored, index, NowMs, web,
                                         aiConfigured, ai, NowMs, words)>>
    /\ UNCHANGED hashBound
    /\ UNCHANGED <<cacheVars, genVars, schedVars, laterVars>>

\* a second call with the arguments of the first: another run of the process
SecondCall ==
    /\ Len(engineRuns) = 1
    /\ LET r == engineRuns[1]
           dateNow == r.dateNow + TickMs
       IN \E web \in WebOutcomes, aiConfigured \in BOOLEAN, ai \in AIOutcomes :
            /\ ~aiConfigured => ai = AIFails
            /\ \E words \in ShaExtensions(SeedsRead(r.agentId, r.scored, r.index,
                                                    aiConfigured, ai)) :
                 /\ sha' = words
                 /\ engineRuns' = Append(engineRuns,
                                         RunCall(r.agentId, r.scored, r.index, r.now, web,
                                                 aiConfigured, ai, dateNow, words))
    /\ UNCHANGED hashBound
    /\ UNCHANGED <<cacheVars, genVars, schedVars, laterVars>>

EngineInit ==
    /\ sha = <<>>
    /\ hashBound \in BOOLEAN
    /\ engineRuns = <<>>
    /\ CacheIdle
    /\ GenIdle
    /\ SchedIdle
    /\ LaterIdle

EngineNext ==
    \/ FirstCall
    \/ SecondCall

SpecEngine == EngineInit /\ [][EngineNext]_vars

\* a later generation in which the same market has another rank among the
\* agent's scored candidates: the call of the first with another index
CallAtOtherRank ==
    /\ Len(engineRuns) = 1
    /\ \E index \in (0..MaxIndex) \ {engineRuns[1].index},
          web \in WebOutcomes, aiConfigured \in BOOLEAN, ai \in AIOutcomes :
         /\ ~aiConfigured => ai = AIFails
         /\ \E words \in ShaExtensions(SeedsRead(engineRuns[1].agentId, engineRuns[1].scored,
                                                 index, aiConfigured, ai)) :
              /\ sha' = words
              /\ engineRuns' = Append(engineRuns,
                                      RunCall(engineRuns[1].agentId, engineRuns[1].scored,
                                              index, engineRuns[1].now, web,
                                              aiConfigured, ai,
                                              engineRuns[1].dateNow + TickMs, words))
    /\ UNCHANGED hashBound
    /\ UNCHANGED <<cacheVars, genVars, schedVars, laterVars>>

RankNext ==
    \/ FirstCall
    \/ CallAtOtherRank

SpecRank == EngineInit /\ [][RankNext]_vars

(***************************************************************************)
(* Agent trade generator: generator.ts generateAgentTrades                  *)
(***************************************************************************)
MaxGenerations == 2     \* generateAgentTrades calls in one behaviour

\* a market as fetchAllMarkets returns it, with what scoreMarketForAgent makes
\* of it (scoring.ts output, an input here)
GenMarket(id, idCode, volumeUsd, liquidityUsd, scored) ==
    [id |-> id, idCode |-> idCode, volumeUsd |-> volumeUsd,
     liquidityUsd |-> liquidityUsd, scored |-> scored]

\* the market lists fetchAllMarkets can return
PoolHot ==
    << GenMarket("m4", 109, 200000, 50000, SM("m4", 109, "Crypto",   75, 50, 15, 25, FALSE, 5)),
       GenMarket("a1",  97, 200000, 50000, SM("a1",  97, "Politics", 90, 60,  0, 25, FALSE, 1)),
       GenMarket("x6", 120, 200000, 50000, SM("x6", 120, "Sports",   60, 40,  0,  0, TRUE,  8)),
       GenMarket("c2",  99, 200000, 50000, SM("c2",  99, "Tech",     85, 55, 15,  0, FALSE, 2)),
       GenMarket("w5", 119, 200000, 50000, SM("w5", 119, "Finance",  70, 30,  0, 25, FALSE, 7)),
       GenMarket("k3", 107, 200000, 50000, SM("k3", 107, "Crypto",   80, 45, 15,  0, FALSE, 4)) >>
PoolMixed ==
    << GenMarket("m4", 109, 200000, 50000, SM("m4", 109, "Crypto",   50, 50, 15,  0, FALSE, 3)),
       GenMarket("a1",  97, 200000, 50000, SM("a1",  97, "Politics",  5, 60,  0,  0, FALSE, 1)),
       GenMarket("w5", 119,  60000, 12000, SM("w5", 119, "Finance",  90, 30,  0, 25, FALSE, 1)),
       GenMarket("k3", 107, 200000, 50000, SM("k3", 107, "Crypto",   30, 45, 15,  0, FALSE, 2)) >>
PoolThin ==
    << GenMarket("x6", 120, 1000, 100, SM("x6", 120, "Sports", 60, 40, 0, 0, TRUE, 8)) >>
\* one market that every agent keeps, scored above the threshold, without news
PoolSingle ==
    << GenMarket("s1", 115, 200000, 50000, SM("s1", 115, "Crypto", 50, 50, 15, 0, FALSE, 1)) >>
\* more markets than twice the maxTrades of GPT_5
PoolWide ==
    << GenMarket("b1",  98, 200000, 50000, SM("b1",  98, "Crypto",   40, 50, 15,  0, FALSE, 1)),
       GenMarket("d2", 100, 200000, 50000, SM("d2", 100, "Politics", 95, 60,  0, 25, FALSE, 2)),
       GenMarket("e3", 101, 200000, 50000, SM("e3", 101, "Sports",   20, 40,  0,  0, TRUE,  4)),
       GenMarket("f4", 102, 200000, 50000, SM("f4", 102, "Tech",     85, 55, 15,  0, FALSE, 5)),
       GenMarket("g5", 103, 200000, 50000, SM("g5", 103, "Finance",  70, 30,  0, 25, FALSE, 7)),
       GenMarket("h6", 104, 200000, 50000, SM("h6", 104, "Crypto",   10, 45, 15,  0, FALSE, 8)),
       GenMarket("i7", 105, 200000, 50000, SM("i7", 105, "Tech",     65, 50,  0,  0, FALSE, 10)),
       GenMarket("j8", 106, 200000, 50000, SM("j8", 106, "Sports",   55, 50,  0,  0, FALSE, 11)),
       GenMarket("l9", 108, 200000, 50000, SM("l9", 108, "Finance",  30, 50,  0,  0, FALSE, 13)) >>
MarketPools == {PoolHot, PoolMixed, PoolThin, PoolSingle, PoolWide}

\* the sha256 words and web results drawn during a generation
GenWordSamples == {0, 15}
GenWeb == [throws |-> FALSE, results |-> 2]

\* s.filter(keep), for keep given as the set of kept elements
RECURSIVE FilterSeq(_, _)
FilterSeq(s, keep) ==
    IF s = <<>> THEN <<>>
    ELSE (IF Head(s) \in keep THEN <<Head(s)>> ELSE <<>>) \o FilterSeq(Tail(s), keep)

\* scoring.ts filterCandidateMarkets: volume and liquidity thresholds of the agent
filterCandidateMarkets(agent, markets) ==
    FilterSeq(markets, {m \in {markets[k] : k \in 1..Len(markets)} :
                           /\ m.volumeUsd >= agent.minVolume
                           /\ m.liquidityUsd >= agent.minLiquidity})

\* scoring.ts scoreMarketForAgent
scoreMarketForAgent(market, agent) == market.scored

\* Array.prototype.sort is stable: x goes after the elements that do not come
\* after it
RECURSIVE InsertByScoreDesc(_, _)
InsertByScoreDesc(x, s) ==
    IF s = <<>> THEN <<x>>
    ELSE IF Head(s).score >= x.score THEN <<Head(s)>> \o InsertByScoreDesc(x, Tail(s))
    ELSE <<x>> \o s
\* mutant: the scored candidates are taken in the order of the market list
SortByScoreDescSkipped(s) == s

RECURSIVE SortByScoreDesc(_)
\* generator.ts 1592: scoredMarkets.sort((a, b) => b.score - a.score)
SortByScoreDesc(s) ==
    IF s = <<>> THEN <<>>
    ELSE InsertByScoreDesc(s[Len(s)], SortByScoreDesc(SubSeq(s, 1, Len(s) - 1)))

RECURSIVE InsertById(_, _)
InsertById(x, s) ==
    IF s = <<>> THEN <<x>>
    ELSE IF Head(s).idCode <= x.idCode THEN <<Head(s)>> \o InsertById(x, Tail(s))
    ELSE <<x>> \o s
RECURSIVE SortById(_)
SortById(s) ==
    IF s = <<>> THEN <<>>
    ELSE InsertById(s[Len(s)], SortById(SubSeq(s, 1, Len(s) - 1)))

\* generator.ts 1571: markets.map(m => m.id).sort(); the ids of a list differ in
\* their first character, whose code orders them
CurrentMarketIds(markets) ==
    LET sorted == SortById(markets)
    IN [k \in 1..Len(sorted) |-> sorted[k].id]

\* generator.ts 1586-1589: every candidate scored (kept in gen.candidates as a
\* history field)
ScoredCandidates(agent, candidates) ==
    [k \in 1..Len(candidates) |-> scoreMarketForAgent(candidates[k], agent)]

\* generator.ts 1586-1595: score, sort, keep the top 2 * maxTrades
TopMarkets(agent, candidates) ==
    LET scoredMarkets == ScoredCandidates(agent, candidates)
        sorted == SortByScoreDesc(scoredMarkets)
        n == IF Len(sorted) < agent.maxTrades * 2 THEN Len(sorted)
             ELSE agent.maxTrades * 2
    IN SubSeq(sorted, 1, n)

\* generator.ts 1561-1598: the call up to the first generateTradeForMarket.
\* A cache hit or an empty candidate list returns at once. The calls of one
\* behaviour are for one agent, whose LLM credential is process configuration;
\* ai is what the LLM service answers during this generation.
GenerateAgentTrades(agentId, markets, aiConfigured, ai) ==
    /\ gen.pc \in {"idle", "returned"}
    /\ gen.calls < MaxGenerations
    /\ gen.calls > 0 => agentId = gen.agentId /\ aiConfigured = gen.aiConfigured
    /\ ~aiConfigured => ai = AIFails
    /\ LET agent == getAgentProfile(agentId)
           currentMarketIds == CurrentMarketIds(markets)
           entry == agentCache[agentId]
           r == CacheLookup(entry, StoredIds(entry), currentMarketIds, clock)
           candidates == filterCandidateMarkets(agent, markets)
           called == [NoGeneration EXCEPT !.calls = gen.calls + 1, !.agentId = agentId,
                                          !.aiConfigured = aiConfigured, !.ai = ai]
       IN /\ agentCache' = IF r.deleted THEN [agentCache EXCEPT ![agentId] = NoEntry]
                           ELSE agentCache
          /\ arrays' = [a \in DOMAIN arrays |->
                           IF a = CallerRef THEN currentMarketIds
                           ELSE IF r.deleted /\ a = entry.marketIds THEN <<>>
                           ELSE arrays[a]]
          /\ gen' = IF r.hit
                      THEN [called EXCEPT !.pc = "returned", !.result = r.trades,
                                          !.cached = TRUE]
                    ELSE IF Len(candidates) = 0
                      THEN [called EXCEPT !.pc = "returned"]
                    ELSE [called EXCEPT !.pc = "loop", !.nowMs = clock,
                                        !.topMarkets = TopMarkets(agent, candidates),
                                        !.candidates = ScoredCandidates(agent, candidates)]
    /\ lastGet' = NoGet
    /\ UNCHANGED <<clock, sha, hashBound, engineRuns>>
    /\ UNCHANGED <<schedVars, laterVars>>

\* mutant: the loop stops one trade too late
EnoughTradesOffByOne(trades, agent) == Len(trades) > agent.maxTrades

\* generator.ts 1625: trades.length >= agent.maxTrades
EnoughTrades(trades, agent) == Len(trades) >= agent.maxTrades

\* the sha256 words a generation step may read: within one behaviour every
\* seed hashes to the same word
GenShaExtensions(seeds) ==
    LET new == {x \in seeds : x \notin DOMAIN sha}
        ws == IF DOMAIN sha = {} THEN GenWordSamples
              ELSE {sha[x] : x \in DOMAIN sha}
    IN {sha @@ [x \in new |-> w] : w \in ws}

\* history of the loop: the market of one iteration and what
\* generateTradeForMarket did with it
Attempt(scored, res) ==
    [id |-> scored.id, score |-> scored.score, kind |-> res.kind,
     calls |-> res.llmCalls + res.webCalls]

\* generator.ts 1601-1633: one iteration of the loop; the last one stores the
\* trades in the cache and returns them
GenerateNextTrade ==
    /\ gen.pc = "loop"
    /\ LET agent == getAgentProfile(gen.agentId)
           scored == gen.topMarkets[gen.i + 1]
           ai == gen.ai
       IN   /\ \E words \in GenShaExtensions(SeedsRead(gen.agentId, scored, gen.i,
                                                       gen.aiConfigured, ai)) :
                 \E res \in {generateTradeForMarket(
                                  agent, scored, NewsRelevanceOf(scored), gen.i, gen.nowMs,
                                  [web |-> GenWeb, aiConfigured |-> gen.aiConfigured,
                                   ai |-> ai, sha |-> words, hashBound |-> hashBound,
                                   dateNow |-> clock])} :
                 \E trades \in {IF res.kind = "trade" THEN Append(gen.trades, res.trade)
                                ELSE gen.trades} :
                 \E last \in {EnoughTrades(trades, agent)
                                 \/ gen.i + 1 >= Len(gen.topMarkets)} :
                 \E e \in {NewEntry(gen.agentId, trades, CallerRef, clock, arrays)} :
                    /\ sha' = words
                    /\ gen' = IF last
                              THEN [gen EXCEPT !.pc = "returned", !.topMarkets = <<>>,
                                               !.trades = <<>>, !.i = 0,
                                               !.result = trades,
                                               !.attempts = Append(@, Attempt(scored, res))]
                              ELSE [gen EXCEPT !.trades = trades, !.i = gen.i + 1,
                                               !.attempts = Append(@, Attempt(scored, res))]
                    /\ agentCache' = IF last THEN [agentCache EXCEPT ![gen.agentId] = e]
                                     ELSE agentCache
                    /\ arrays' = IF last
                                 THEN [arrays EXCEPT ![e.marketIds] = arrays[CallerRef]]
                                 ELSE arrays
    /\ lastGet' = NoGet
    /\ UNCHANGED <<clock, hashBound, engineRuns>>
    /\ UNCHANGED <<schedVars, laterVars>>

GenInit ==
    /\ clock = 0
    /\ agentCache = [a \in EngineAgents |-> NoEntry]
    /\ arrays = [r \in {CallerRef} \cup EngineAgents |-> <<>>]
    /\ lastGet = NoGet
    /\ sha = <<>>
    /\ hashBound \in BOOLEAN
    /\ engineRuns = <<>>
    /\ gen = NoGeneration
    /\ SchedIdle
    /\ LaterIdle

GenNext ==
    \/ \E agentId \in EngineAgents, markets \in MarketPools, aiConfigured \in BOOLEAN,
          ai \in AIOutcomes :
           GenerateAgentTrades(agentId, markets, aiConfigured, ai)
    \/ GenerateNextTrade
    \/ AdvanceClock

SpecGen == GenInit /\ [][GenNext]_vars

(***************************************************************************)
(* Market source: polymarket.ts fetchAllMarkets                             *)
(***************************************************************************)
MARKET_CACHE_TTL == 60000

\* mutant: a failed refresh returns the empty list whatever the cache holds
fetchAllMarketsDropsStale(cache, now, upstreamOk, version) == IF cache.present /\ now - cache.cachedAt < MARKET_CACHE_TTL THEN [markets |-> cache.markets, ref |-> cache.ref, cache |-> cache, upstreamCalls |-> 0] ELSE IF upstreamOk THEN [markets |-> version, ref |-> cache.ref + 1, cache |-> [present |-> TRUE, markets |-> version, cachedAt |-> now, ref |-> cache.ref + 1], upstreamCalls |-> 1] ELSE [markets |-> 0, ref |-> 0, cache |-> cache, upstreamCalls |-> 1]

\* mutant: an entry aged exactly 60 s still counts as fresh
fetchAllMarketsFreshAtTtl(cache, now, upstreamOk, version) == IF cache.present /\ now - cache.cachedAt <= MARKET_CACHE_TTL THEN [markets |-> cache.markets, ref |-> cache.ref, cache |-> cache, upstreamCalls |-> 0] ELSE IF upstreamOk THEN [markets |-> version, ref |-> cache.ref + 1, cache |-> [present |-> TRUE, markets |-> version, cachedAt |-> now, ref |-> cache.ref + 1], upstreamCalls |-> 1] ELSE [markets |-> IF cache.present THEN cache.markets ELSE 0, ref |-> cache.ref, cache |-> cache, upstreamCalls |-> 1]

\* mutant: a failed refresh restarts the cache window (negative caching)
RefreshOutcomeTouchesCache(cache, now, upstreamOk, version) == IF upstreamOk THEN [markets |-> version, ref |-> cache.ref + 1, cache |-> [present |-> TRUE, markets |-> version, cachedAt |-> now, ref |-> cache.ref + 1], upstreamCalls |-> 1] ELSE [markets |-> IF cache.present THEN cache.markets ELSE 0, ref |-> cache.ref, cache |-> [cache EXCEPT !.cachedAt = now], upstreamCalls |-> 1]

\* polymarket.ts 527-629: the upstream request has settled: its answer becomes
\* a new array that replaces the cache, its failure returns the array the cache
\* holds, however old, or an empty array. ref names the array object returned;
\* 0 is an array the cache does not hold.
RefreshOutcome(cache, now, upstreamOk, version) ==
    IF upstreamOk
    THEN [markets |-> version, ref |-> cache.ref + 1,
          cache |-> [present |-> TRUE, markets |-> version, cachedAt |-> now,
                     ref |-> cache.ref + 1],
          upstreamCalls |-> 1]
    ELSE [markets |-> IF cache.present THEN cache.markets ELSE 0, ref |-> cache.ref,
          cache |-> cache, upstreamCalls |-> 1]

\* polymarket.ts 520-525: the cache entry is younger than the TTL
MarketCacheFresh(cache, now) == cache.present /\ now - cache.cachedAt < MARKET_CACHE_TTL

\* polymarket.ts 518-630: a fresh cache entry is returned; otherwise the
\* upstream is asked. Here the request and its response are one step.
fetchAllMarkets(cache, now, upstreamOk, version) ==
    IF MarketCacheFresh(cache, now)
    THEN [markets |-> cache.markets, ref |-> cache.ref, cache |-> cache,
          upstreamCalls |-> 0]
    ELSE RefreshOutcome(cache, now, upstreamOk, version)

(***************************************************************************)
(* Cycle runner and scheduler: execution.js                                 *)
(***************************************************************************)
SchedTickMs == 30000    \* granularity of the clock of the scheduler
MaxSchedClock == 90000  \* the clock of the scheduler stops here
MaxTicks == 2           \* timer ticks in one behaviour
MaxVersion == 2         \* market lists the upstream serves in one behaviour

\* mutant: runCycle without the in-flight guard
RunCycleNeverSkips(running) == FALSE

\* execution.js 146-148: if (isRunning) return
RunCycleSkips(running) == running

\* runAgentCycle 67-89 and runTradingCycle 117-131: the record of one agent
AgentCycleResult(agentId, outcome) ==
    [agentId |-> agentId, success |-> outcome = "ok"]

\* mutant: only the fulfilled agent cycles get a record
CycleResultsFulfilledOnly(outcomes) ==
    LET RECURSIVE Collect(_)
        Collect(k) ==
            IF k > Len(ALL_AGENT_IDS) THEN <<>>
            ELSE (IF outcomes[ALL_AGENT_IDS[k]] = "rejected" THEN <<>>
                  ELSE <<AgentCycleResult(ALL_AGENT_IDS[k], outcomes[ALL_AGENT_IDS[k]])>>)
                 \o Collect(k + 1)
    IN Collect(1)

\* runTradingCycle 112-134: Promise.allSettled keeps the order of ALL_AGENT_IDS;
\* a rejected agent cycle gets a failure record
CycleResults(outcomes) ==
    [k \in 1..Len(ALL_AGENT_IDS) |->
        AgentCycleResult(ALL_AGENT_IDS[k], outcomes[ALL_AGENT_IDS[k]])]

\* mutant: a tick skipped while a cycle ran is run when the cycle finishes
RunsQueuedTickAfterSkip(skipped) == skipped > 0

\* runCycle 156-158: the finally block only clears the flag; a skipped tick is
\* not remembered
RunsQueuedTick(skipped) == FALSE

\* runCycle 149-151: the flag is set and runTradingCycle starts fetching
BeginCycle ==
    /\ isRunning' = TRUE
    /\ inFlight' = inFlight + 1
    /\ cycle' = [NoCycle EXCEPT !.pc = "fetching"]

\* startScheduler 142-170: runCycle() at once, then the interval is armed
StartScheduler ==
    /\ ~started
    /\ started' = TRUE
    /\ intervalId' = TRUE
    /\ BeginCycle
    /\ ticks' = [NoTick EXCEPT !.cycles = 1]
    /\ lastCycle' = NoLastCycle
    /\ UNCHANGED <<clock, marketCache, upstreamVersion>>
    /\ UNCHANGED <<agentCache, arrays, lastGet, engineVars, genVars, laterVars>>

\* the interval timer fires runCycle
TimerTick ==
    /\ intervalId
    /\ ticks.count < MaxTicks
    /\ IF RunCycleSkips(isRunning)
       THEN /\ ticks' = [ticks EXCEPT !.count = ticks.count + 1, !.last = "skipped"]
            /\ UNCHANGED <<isRunning, inFlight, cycle>>
       ELSE /\ ticks' = [ticks EXCEPT !.count = ticks.count + 1, !.last = "started",
                                      !.cycles = ticks.cycles + 1,
                                      !.idle = ticks.idle + 1]
            /\ BeginCycle
    /\ lastCycle' = NoLastCycle
    /\ UNCHANGED <<clock, started, intervalId, marketCache, upstreamVersion>>
    /\ UNCHANGED <<agentCache, arrays, lastGet, engineVars, genVars, laterVars>>

\* the stop function 164-169
StopScheduler ==
    /\ intervalId
    /\ intervalId' = FALSE
    /\ ticks' = [ticks EXCEPT !.last = "none"]
    /\ lastCycle' = NoLastCycle
    /\ UNCHANGED <<clock, started, isRunning, inFlight, cycle, marketCache,
                   upstreamVersion>>
    /\ UNCHANGED <<agentCache, arrays, lastGet, engineVars, genVars, laterVars>>

\* runTradingCycle 102-112: the markets arrive and every runAgentCycle is
\* called; an agent cycle that throws before its try block (24-26) is rejected
CycleFetchesMarkets(upstreamOk, rejected) ==
    /\ cycle.pc = "fetching"
    /\ LET r == fetchAllMarkets(marketCache, clock, upstreamOk, upstreamVersion)
       IN /\ marketCache' = r.cache
          /\ cycle' = [pc |-> "agents", markets |-> r.markets,
                       agent |-> [a \in AgentIdSet |->
                                    IF a \in rejected
                                    THEN [st |-> "settled", obs |-> 0,
                                          outcome |-> "rejected"]
                                    ELSE [st |-> "started", obs |-> 0,
                                          outcome |-> "none"]]]
    /\ ticks' = [ticks EXCEPT !.last = "none"]
    /\ lastCycle' = NoLastCycle
    /\ UNCHANGED <<clock, started, intervalId, isRunning, inFlight, upstreamVersion>>
    /\ UNCHANGED <<agentCache, arrays, lastGet, engineVars, genVars, laterVars>>

\* runAgentCycle 29-52: the portfolio is loaded and generateAgentTrades is
\* called, which fetches the markets itself (generator.ts 1565); an exception
\* before that is caught by runAgentCycle
AgentGenerates(a, upstreamOk, throws) ==
    /\ cycle.pc = "agents"
    /\ cycle.agent[a].st = "started"
    /\ LET r == fetchAllMarkets(marketCache, clock, upstreamOk, upstreamVersion)
       IN IF throws
          THEN /\ cycle' = [cycle EXCEPT !.agent[a] =
                               [st |-> "settled", obs |-> 0, outcome |-> "caught"]]
               /\ UNCHANGED marketCache
          ELSE /\ cycle' = [cycle EXCEPT !.agent[a] =
                               [st |-> "generating", obs |-> r.markets, outcome |-> "none"]]
               /\ marketCache' = r.cache
    /\ ticks' = [ticks EXCEPT !.last = "none"]
    /\ lastCycle' = NoLastCycle
    /\ UNCHANGED <<clock, started, intervalId, isRunning, inFlight, upstreamVersion>>
    /\ UNCHANGED <<agentCache, arrays, lastGet, engineVars, genVars, laterVars>>

\* runAgentCycle 52-89: the trades are generated and the portfolio saved, or an
\* exception is caught
AgentSettles(a, outcome) ==
    /\ cycle.pc = "agents"
    /\ cycle.agent[a].st = "generating"
    /\ cycle' = [cycle EXCEPT !.agent[a] =
                    [st |-> "settled", obs |-> 0, outcome |-> outcome]]
    /\ ticks' = [ticks EXCEPT !.last = "none"]
    /\ lastCycle' = NoLastCycle
    /\ UNCHANGED <<clock, started, intervalId, isRunning, inFlight, marketCache,
                   upstreamVersion>>
    /\ UNCHANGED <<agentCache, arrays, lastGet, engineVars, genVars, laterVars>>

\* mutant: the flag is cleared after the awaited call only, not in a finally block
ClearsFlagOnSuccessOnly(threw) == ~threw

\* runCycle 153-158: catch logs the error, finally clears the flag either way
ClearsFlag(threw) == TRUE

\* runTradingCycle 113-134 returns and runCycle 156-158 clears the flag
CycleReturns ==
    /\ cycle.pc = "agents"
    /\ \A a \in AgentIdSet : cycle.agent[a].st = "settled"
    /\ LET outcomes == [a \in AgentIdSet |-> cycle.agent[a].outcome]
       IN lastCycle' = [returned |-> TRUE, outcomes |-> outcomes,
                        results |-> CycleResults(outcomes)]
    /\ IF RunsQueuedTick(ticks.count - ticks.idle)
       THEN /\ isRunning' = TRUE
            /\ inFlight' = inFlight
            /\ cycle' = [NoCycle EXCEPT !.pc = "fetching"]
            /\ ticks' = [ticks EXCEPT !.last = "none", !.cycles = ticks.cycles + 1,
                                      !.ended = "returned"]
       ELSE /\ isRunning' = ~ClearsFlag(FALSE)
            /\ inFlight' = inFlight - 1
            /\ cycle' = NoCycle
            /\ ticks' = [ticks EXCEPT !.last = "none", !.ended = "returned"]
    /\ UNCHANGED <<clock, started, intervalId, marketCache, upstreamVersion>>
    /\ UNCHANGED <<agentCache, arrays, lastGet, engineVars, genVars, laterVars>>

\* runTradingCycle rejects while it awaits its data sources (101-104); runCycle
\* catches the error (153-155) and runs its finally block (156-158)
CycleThrows ==
    /\ cycle.pc = "fetching"
    /\ isRunning' = ~ClearsFlag(TRUE)
    /\ inFlight' = inFlight - 1
    /\ cycle' = NoCycle
    /\ ticks' = [ticks EXCEPT !.last = "none", !.ended = "threw"]
    /\ lastCycle' = NoLastCycle
    /\ UNCHANGED <<clock, started, intervalId, marketCache, upstreamVersion>>
    /\ UNCHANGED <<agentCache, arrays, lastGet, engineVars, genVars, laterVars>>

\* time passes
SchedAdvanceClock ==
    /\ clock + SchedTickMs <= MaxSchedClock
    /\ clock' = clock + SchedTickMs
    /\ ticks' = [ticks EXCEPT !.last = "none"]
    /\ lastCycle' = NoLastCycle
    /\ UNCHANGED <<started, intervalId, isRunning, inFlight, cycle, marketCache,
                   upstreamVersion>>
    /\ UNCHANGED <<agentCache, arrays, lastGet, engineVars, genVars, laterVars>>

\* the upstream API serves a new market list
UpstreamChanges ==
    /\ upstreamVersion < MaxVersion
    /\ upstreamVersion' = upstreamVersion + 1
    /\ ticks' = [ticks EXCEPT !.last = "none"]
    /\ lastCycle' = NoLastCycle
    /\ UNCHANGED <<clock, started, intervalId, isRunning, inFlight, cycle, marketCache>>
    /\ UNCHANGED <<agentCache, arrays, lastGet, engineVars, genVars, laterVars>>

SchedInit ==
    /\ clock = 0
    /\ agentCache = [a \in CacheAgents |-> NoEntry]
    /\ arrays = [r \in ArrayRefs |-> <<>>]
    /\ lastGet = NoGet
    /\ SchedIdle
    /\ EngineIdle
    /\ GenIdle
    /\ LaterIdle

SchedNext ==
    \/ StartScheduler
    \/ TimerTick
    \/ StopScheduler
    \/ \E upstreamOk \in BOOLEAN, rejected \in SUBSET AgentIdSet :
           CycleFetchesMarkets(upstreamOk, rejected)
    \/ \E a \in AgentIdSet, upstreamOk \in BOOLEAN, throws \in BOOLEAN :
           AgentGenerates(a, upstreamOk, throws)
    \/ \E a \in AgentIdSet, outcome \in {"ok", "caught"} : AgentSettles(a, outcome)
    \/ CycleReturns
    \/ CycleThrows
    \/ SchedAdvanceClock
    \/ UpstreamChanges

SpecSched == SchedInit /\ [][SchedNext]_vars

(***************************************************************************)
(* persistence.ts: the persistence adapter                                  *)
(***************************************************************************)
MaxSaves == 3           \* the saveTrade calls of one behaviour

PersistAgents == {"GROK_4", "GPT_5"}

\* persistence.ts 315-325: the AgentTradeRecord values handed to saveTrade
TradeRecords ==
    {[id |-> i, agentId |-> a, marketId |-> "m1", status |-> st] :
        i \in {"t1", "t2"}, a \in PersistAgents, st \in {"OPEN", "CLOSED"}}

\* persistence.ts 350: saveTrade: async (_trade) => {}; the promise resolves and
\* the adapter keeps nothing
saveTrade(trade) == [rejected |-> FALSE]

\* persistence.ts 351: loadTrades: async (_agentId) => []
loadTrades(agentId) == <<>>

\* persistence.ts 346, 352: savePortfolio and updatePortfolio resolve and keep
\* nothing
savePortfolio(portfolio) == [rejected |-> FALSE]

\* persistence.ts 347-348: loadPortfolio and getPortfolio resolve with null
getPortfolio(agentId) == NoPortfolio

\* a caller awaits saveTrade(trade)
SaveTrade(trade) ==
    /\ Len(saveLog) < MaxSaves
    /\ saveLog' = Append(saveLog, [trade |-> trade, rejected |-> saveTrade(trade).rejected])
    /\ lastLoad' = NoLoad
    /\ UNCHANGED <<cacheVars, engineVars, genVars, schedVars, agentVars, marketVars, moreVars>>

\* a caller awaits loadTrades(agentId)
LoadTrades(agentId) ==
    /\ lastLoad' = [called |-> TRUE, agentId |-> agentId, result |-> loadTrades(agentId)]
    /\ UNCHANGED saveLog
    /\ UNCHANGED <<cacheVars, engineVars, genVars, schedVars, agentVars, marketVars, moreVars>>

PersistInit ==
    /\ CacheIdle
    /\ EngineIdle
    /\ GenIdle
    /\ SchedIdle
    /\ LaterIdle

PersistNext ==
    \/ \E trade \in TradeRecords : SaveTrade(trade)
    \/ \E agentId \in PersistAgents : LoadTrades(agentId)

SpecPersist == PersistInit /\ [][PersistNext]_vars

(***************************************************************************)
(* execution.js: runAgentCycle, one agent's cycle                           *)
(***************************************************************************)
MaxAgentCycles == 2     \* the runAgentCycle calls of one behaviour

\* a market whose probability is beyond every exit threshold
PoolExit ==
    << GenMarket("e1", 101, 200000, 50000, SM("e1", 101, "Crypto", 50, 90, 15, 0, FALSE, 1)) >>
\* the market lists of an agent cycle
AgentPools == {PoolMixed, PoolExit}

\* portfolio.ts createInitialPortfolio: the starting capital, no PnL, no position
createInitialPortfolio(agentId) ==
    [exists |-> TRUE, agentId |-> agentId,
     startingCapitalUsd |-> Whole(STARTING_CAPITAL),
     currentCapitalUsd |-> Whole(STARTING_CAPITAL),
     realizedPnlUsd |-> Whole(0), unrealizedPnlUsd |-> Whole(0),
     maxEquityUsd |-> Whole(STARTING_CAPITAL), openPositions |-> {}]

\* portfolio.ts updatePortfolioMetrics: unrealized PnL summed over the open
\* positions, of which a portfolio built by runAgentCycle has none, then the
\* equity peak
updatePortfolioMetrics(portfolio, markets) ==
    [portfolio EXCEPT !.unrealizedPnlUsd = Whole(0),
                      !.maxEquityUsd = MathMax(portfolio.maxEquityUsd,
                                               portfolio.currentCapitalUsd)]

\* trades.filter(t => t.status === status).length
CountStatus(trades, status) ==
    Cardinality({k \in 1..Len(trades) : trades[k].status = status})

\* execution.js 67-75: the record of a cycle that reached its end
SuccessResult(agentId, candidateMarkets, trades, portfolio) ==
    [settled |-> "fulfilled", agentId |-> agentId, success |-> TRUE,
     candidateMarkets |-> candidateMarkets,
     newTrades |-> CountStatus(trades, "OPEN"),
     closedTrades |-> CountStatus(trades, "CLOSED"),
     openPositions |-> Cardinality(portfolio.openPositions),
     error |-> [defined |-> FALSE]]

\* execution.js 77-89: the record built by the catch block
FailureResult(agentId, message) ==
    [settled |-> "fulfilled", agentId |-> agentId, success |-> FALSE,
     candidateMarkets |-> 0, newTrades |-> 0, closedTrades |-> 0, openPositions |-> 0,
     error |-> [defined |-> TRUE, message |-> message]]

\* mutant: savePortfolio is awaited after the try statement
TryCoversUpToGenerate(step) == step \in {"load", "metrics", "generate"}

\* execution.js 27-76: the steps inside the try statement
TryCovers(step) == step \in {"load", "metrics", "generate", "save"}

\* a step of the cycle throws the error named message
Throws(step, message) ==
    IF TryCovers(step)
    THEN [agentRun EXCEPT !.pc = "resolved", !.failedAt = step,
                          !.result = FailureResult(agentRun.agentId, message)]
    ELSE [agentRun EXCEPT !.pc = "resolved", !.failedAt = step,
                          !.result = [settled |-> "rejected", message |-> message]]

\* the trades of a list that are OPEN
RECURSIVE OpenTrades(_)
OpenTrades(trades) ==
    IF trades = <<>> THEN <<>>
    ELSE (IF Head(trades).status = "OPEN" THEN <<Head(trades)>> ELSE <<>>)
             \o OpenTrades(Tail(trades))

\* execution.js 23-29: the call, up to the await of getPortfolio. The calls of
\* one behaviour are for one agent.
RunAgentCycle(agentId, markets) ==
    /\ agentRun.pc \in {"idle", "resolved"}
    /\ gen.pc \in {"idle", "returned"}
    /\ agentRun.cycles < MaxAgentCycles
    /\ agentRun.cycles > 0 => agentId = agentRun.agentId
    /\ agentRun' = [NoAgentRun EXCEPT !.pc = "loading", !.cycles = agentRun.cycles + 1,
                                      !.agentId = agentId, !.markets = markets,
                                      !.cacheBefore = agentCache[agentId],
                                      !.genBefore = gen.calls,
                                      !.prevOpen = OpenTrades(agentRun.trades)]
    /\ UNCHANGED <<cacheVars, engineVars, genVars, schedVars, persistVars, marketVars, moreVars>>

\* execution.js 29-52: getPortfolio settles; the adapter resolves with null, or
\* the call throws (the adapter of dist-server has no getPortfolio);
\* updatePortfolioMetrics runs and generateAgentTrades is called
LoadPortfolio(outcome) ==
    /\ agentRun.pc = "loading"
    /\ agentRun' =
         IF outcome = "loadThrows" THEN Throws("load", "getPortfolio")
         ELSE IF outcome = "metricsThrows" THEN Throws("metrics", "updatePortfolioMetrics")
         ELSE [agentRun EXCEPT
                 !.pc = "generating",
                 !.portfolio =
                     updatePortfolioMetrics(
                         IF getPortfolio(agentRun.agentId).exists
                         THEN [getPortfolio(agentRun.agentId) EXCEPT !.openPositions = {}]
                         ELSE createInitialPortfolio(agentRun.agentId),
                         agentRun.markets)]
    /\ UNCHANGED <<cacheVars, engineVars, genVars, schedVars, persistVars, marketVars, moreVars>>

\* execution.js 52: generateAgentTrades(agentId) starts; it fetches the
\* markets itself. The agent has no LLM credential.
CycleCallsGenerator(markets) ==
    /\ agentRun.pc = "generating"
    /\ gen.calls = agentRun.genBefore
    /\ GenerateAgentTrades(agentRun.agentId, markets, FALSE, AIFails)

\* execution.js 52: generateAgentTrades runs its loop
CycleGeneratorStep ==
    /\ agentRun.pc = "generating"
    /\ GenerateNextTrade

\* execution.js 52: generateAgentTrades throws before its loop
GeneratorThrows ==
    /\ agentRun.pc = "generating"
    /\ gen.calls = agentRun.genBefore
    /\ agentRun' = Throws("generate", "generateAgentTrades")
    /\ UNCHANGED <<cacheVars, engineVars, genVars, schedVars, persistVars, marketVars, moreVars>>

\* execution.js 52-65: generateAgentTrades resolves; the lifecycle is a TODO,
\* the candidate markets are counted and savePortfolio is called
GeneratorReturns ==
    /\ agentRun.pc = "generating"
    /\ gen.calls > agentRun.genBefore
    /\ gen.pc = "returned"
    /\ agentRun' = [agentRun EXCEPT !.pc = "saving", !.trades = gen.result,
                                    !.saved = agentRun.portfolio]
    /\ UNCHANGED <<cacheVars, engineVars, genVars, schedVars, persistVars, marketVars, moreVars>>

\* execution.js 65-75: savePortfolio settles: the adapter resolves, or an
\* adapter backed by a database rejects
SavePortfolio(rejects) ==
    /\ agentRun.pc = "saving"
    /\ agentRun' =
         IF rejects \/ savePortfolio(agentRun.saved).rejected
         THEN Throws("save", "savePortfolio")
         ELSE [agentRun EXCEPT
                 !.pc = "resolved",
                 !.result = SuccessResult(
                     agentRun.agentId,
                     Len(filterCandidateMarkets(getAgentProfile(agentRun.agentId),
                                                agentRun.markets)),
                     agentRun.trades, agentRun.portfolio)]
    /\ UNCHANGED <<cacheVars, engineVars, genVars, schedVars, persistVars, marketVars, moreVars>>

\* time passes between two cycles
BetweenCycles ==
    /\ agentRun.pc \in {"idle", "resolved"}
    /\ AdvanceClock

AgentInit ==
    /\ clock = 0
    /\ agentCache = [a \in EngineAgents |-> NoEntry]
    /\ arrays = [r \in {CallerRef} \cup EngineAgents |-> <<>>]
    /\ lastGet = NoGet
    /\ sha = <<>>
    /\ hashBound \in BOOLEAN
    /\ engineRuns = <<>>
    /\ gen = NoGeneration
    /\ SchedIdle
    /\ LaterIdle

AgentNext ==
    \/ \E agentId \in EngineAgents, markets \in AgentPools : RunAgentCycle(agentId, markets)
    \/ \E outcome \in {"null", "loadThrows", "metricsThrows"} : LoadPortfolio(outcome)
    \/ \E markets \in AgentPools : CycleCallsGenerator(markets)
    \/ CycleGeneratorStep
    \/ GeneratorThrows
    \/ GeneratorReturns
    \/ \E rejects \in BOOLEAN : SavePortfolio(rejects)
    \/ BetweenCycles

SpecAgent == AgentInit /\ [][AgentNext]_vars

(***************************************************************************)
(* polymarket.ts: fetchAllMarkets called over time                          *)
(***************************************************************************)
MaxFetching == 2        \* the upstream market requests in flight at once

\* polymarket.ts 518-630: one call. The upstream answers with its current market
\* list, with a list of which no record passes the filter (604-609), or fails;
\* the function has no throw outside its try statement, so the call resolves.
FetchAllMarkets(upstreamOk, answer) ==
    /\ \E r \in {fetchAllMarkets(marketCache, clock, upstreamOk, answer)} :
        /\ marketCache' = r.cache
        /\ lastFetch' = [called |-> TRUE, settled |-> "fulfilled", markets |-> r.markets,
                         upstreamCalls |-> r.upstreamCalls,
                         failed |-> r.upstreamCalls > 0 /\ ~upstreamOk,
                         ref |-> r.ref, at |-> clock,
                         freshAtCall |-> MarketCacheFresh(marketCache, clock),
                         cacheRef |-> marketCache.ref,
                         prevRef |-> IF lastFetch.called THEN lastFetch.ref ELSE 0,
                         seen |-> IF lastFetch.called
                                  THEN lastFetch.seen \cup {<<lastFetch.ref, lastFetch.refAt>>}
                                  ELSE {},
                         refAt |-> r.cache.cachedAt,
                         before |-> refreshed,
                         age |-> IF marketCache.present THEN clock - marketCache.cachedAt
                                 ELSE 0]
        /\ refreshed' = IF r.upstreamCalls > 0 /\ upstreamOk
                        THEN [ever |-> TRUE, markets |-> answer]
                        ELSE refreshed
    /\ UNCHANGED fetching
    /\ UNCHANGED <<clock, started, intervalId, isRunning, inFlight, ticks, cycle,
                   upstreamVersion, lastCycle>>
    /\ UNCHANGED <<agentCache, arrays, lastGet, engineVars, genVars, persistVars, agentVars, moreVars>>

\* polymarket.ts 518-597: a call finds no fresh cache entry and awaits the
\* upstream; other calls run meanwhile
FetchStarts ==
    /\ ~MarketCacheFresh(marketCache, clock)
    /\ fetching < MaxFetching
    /\ fetching' = fetching + 1
    /\ UNCHANGED <<lastFetch, refreshed>>
    /\ UNCHANGED <<cacheVars, engineVars, genVars, schedVars, persistVars, agentVars, moreVars>>

\* polymarket.ts 597-629: an awaited upstream request settles and its call
\* returns
FetchCompletes(upstreamOk, answer) ==
    /\ fetching > 0
    /\ fetching' = fetching - 1
    /\ \E r \in {RefreshOutcome(marketCache, clock, upstreamOk, answer)} :
        /\ marketCache' = r.cache
        /\ lastFetch' = [called |-> TRUE, settled |-> "fulfilled", markets |-> r.markets,
                         upstreamCalls |-> r.upstreamCalls,
                         failed |-> ~upstreamOk,
                         ref |-> r.ref, at |-> clock,
                         freshAtCall |-> FALSE,
                         cacheRef |-> marketCache.ref,
                         prevRef |-> IF lastFetch.called THEN lastFetch.ref ELSE 0,
                         seen |-> IF lastFetch.called
                                  THEN lastFetch.seen \cup {<<lastFetch.ref, lastFetch.refAt>>}
                                  ELSE {},
                         refAt |-> r.cache.cachedAt,
                         before |-> refreshed,
                         age |-> IF marketCache.present THEN clock - marketCache.cachedAt
                                 ELSE 0]
        /\ refreshed' = IF upstreamOk THEN [ever |-> TRUE, markets |-> answer]
                        ELSE refreshed
    /\ UNCHANGED <<clock, started, intervalId, isRunning, inFlight, ticks, cycle,
                   upstreamVersion, lastCycle>>
    /\ UNCHANGED <<agentCache, arrays, lastGet, engineVars, genVars, persistVars, agentVars, moreVars>>

MarketsInit ==
    /\ clock = 0
    /\ agentCache = [a \in CacheAgents |-> NoEntry]
    /\ arrays = [r \in ArrayRefs |-> <<>>]
    /\ lastGet = NoGet
    /\ SchedIdle
    /\ EngineIdle
    /\ GenIdle
    /\ LaterIdle

MarketsNext ==
    \/ \E upstreamOk \in BOOLEAN, answer \in {0, upstreamVersion} :
           FetchAllMarkets(upstreamOk, answer)
    \/ FetchStarts
    \/ \E upstreamOk \in BOOLEAN, answer \in {0, upstreamVersion} :
           FetchCompletes(upstreamOk, answer)
    \/ SchedAdvanceClock
    \/ UpstreamChanges

SpecMarkets == MarketsInit /\ [][MarketsNext]_vars

(***************************************************************************)
(* polymarket.ts: the mapping and the filter of one market refresh          *)
(***************************************************************************)
MaxRawMarkets == 2      \* the raw records of one upstream answer

\* A raw record of the upstream: its identifier and question are present or
\* missing; its volume and probability are missing, a number, or text that is
\* not a number.
RawRecords ==
    [id : {"present", "missing"}, question : {"present", "missing"},
     volume : {"missing", "number", "text"}, probability : {"missing", "number", "text"}]
RawLists == UNION {[1..n -> RawRecords] : n \in 1..MaxRawMarkets}

\* parseFloat(field || '0'): a missing field parses the default, text parses to NaN
parseFloatOr(field) ==
    IF field = "missing" THEN "default" ELSE IF field = "text" THEN "NaN" ELSE "value"

\* polymarket.ts 550-567 (server side) and 466-480 (mapPolymarketMarket): the
\* server-side mapping yields the empty id when the record has none, the other
\* String(undefined)
MapRawMarket(raw, serverSide) ==
    [id |-> IF raw.id = "present" THEN "id"
            ELSE IF serverSide THEN "" ELSE "undefined",
     question |-> IF raw.question = "present" THEN "question" ELSE "",
     volumeUsd |-> parseFloatOr(raw.volume),
     currentProbability |-> parseFloatOr(raw.probability),
     raw |-> raw]

\* polymarket.ts 568-570 and 607-609: the filter of the mapped markets
KeepsMarket(m) ==
    /\ m.id # ""
    /\ m.question # ""
    /\ m.volumeUsd # "NaN"
    /\ m.currentProbability # "NaN"

\* rawMarkets.map(...).filter(...)
MapAndFilter(raws, serverSide) ==
    LET mapped == [k \in 1..Len(raws) |-> MapRawMarket(raws[k], serverSide)]
    IN FilterSeq(mapped, {m \in {mapped[k] : k \in 1..Len(mapped)} : KeepsMarket(m)})

\* one refresh maps the raw records of the upstream answer
RefreshMaps(serverSide) ==
    /\ ~mapRun.done
    /\ mapRun' = [mapRun EXCEPT !.done = TRUE, !.serverSide = serverSide,
                                !.markets = MapAndFilter(mapRun.raw, serverSide)]
    /\ UNCHANGED <<newsCache, newsRun, aiCache, lastAIGet, genCalls, tunerRun>>
    /\ UNCHANGED olderVars

MapInit ==
    /\ mapRun \in {[NoMapRun EXCEPT !.raw = raws] : raws \in RawLists}
    /\ newsCache = NoNewsCache
    /\ newsRun = NoNewsRun
    /\ aiCache = <<>>
    /\ lastAIGet = NoAIGet
    /\ genCalls = <<>>
    /\ tunerRun = NoTunerRun
    /\ saveLog = <<>>
    /\ lastLoad = NoLoad
    /\ agentRun = NoAgentRun
    /\ lastFetch = NoFetch
    /\ refreshed = NoRefresh
    /\ fetching = 0
    /\ CacheIdle
    /\ EngineIdle
    /\ GenIdle
    /\ SchedIdle

MapNext == \E serverSide \in BOOLEAN : RefreshMaps(serverSide)

SpecMap == MapInit /\ [][MapNext]_vars

(***************************************************************************)
(* News aggregation (apiConfig.ts)                                          *)
(***************************************************************************)
NEWS_REFRESH_MS == 300000
NewsTickMs == 150000
MaxNewsClock == 450000

\* getNewsProviders 200-256: the providers whose key is configured, in order
NewsProviders == <<"NewsAPI", "GNews">>

\* titles as providers send them ("" is what fetchFromProvider substitutes for
\* a missing title); Normalized is title.toLowerCase().trim()
Titles == {"a", " A", "", " "}

Normalized(title) ==
    CASE title = "a" -> "a"
      [] title = " A" -> "a"
      [] title = "" -> ""
      [] title = " " -> ""

\* JavaScript truthiness of a string: only the empty string is falsy
Truthy(title) == title # ""

\* the article lists one provider answers with
TitleLists == {<<>>} \cup {<<t>> : t \in Titles}

\* what one provider does on one call: its request fails, or it answers with
\* a list of articles
ProviderOutcomes ==
    {[failed |-> TRUE, titles |-> <<>>]} \cup
    {[failed |-> FALSE, titles |-> l] : l \in TitleLists}

\* apiConfig.ts 265-347: a failed request is caught and yields []; otherwise
\* the provider's articles, each tagged with its source
fetchFromProvider(provider, outcome) ==
    IF outcome.failed THEN <<>>
    ELSE [i \in 1..Len(outcome.titles) |->
             [source |-> provider, n |-> i, title |-> outcome.titles[i]]]

RECURSIVE DedupRawFrom(_, _)
DedupRawFrom(articles, seen) ==
    IF articles = <<>> THEN <<>>
    ELSE IF Head(articles).title \notin seen /\ Truthy(Head(articles).title)
         THEN <<Head(articles)>> \o DedupRawFrom(Tail(articles), seen \cup {Head(articles).title})
         ELSE DedupRawFrom(Tail(articles), seen)

deduplicateArticlesByRawTitle(articles) == DedupRawFrom(articles, {})

\* apiConfig.ts 355-368: keep an article when its normalized title has not been
\* seen and its title is truthy
RECURSIVE DedupFrom(_, _)
DedupFrom(articles, seen) ==
    IF articles = <<>> THEN <<>>
    ELSE IF Normalized(Head(articles).title) \notin seen /\ Truthy(Head(articles).title)
         THEN <<Head(articles)>> \o
              DedupFrom(Tail(articles), seen \cup {Normalized(Head(articles).title)})
         ELSE DedupFrom(Tail(articles), seen)

deduplicateArticles(articles) == DedupFrom(articles, {})

\* apiConfig.ts 399-409: the fulfilled results concatenated in provider order
AllArticles(outcomes) ==
    fetchFromProvider(NewsProviders[1], outcomes[1]) \o
    fetchFromProvider(NewsProviders[2], outcomes[2])

\* apiConfig.ts 380-422
fetchLatestNews(cache, now, configured, outcomes) ==
    IF cache.present /\ now - cache.cachedAt < NEWS_REFRESH_MS
    THEN [articles |-> cache.articles, cache |-> cache, aggregated |-> FALSE]
    ELSE IF ~configured
         THEN [articles |-> IF cache.present THEN cache.articles ELSE <<>>,
               cache |-> cache, aggregated |-> FALSE]
         ELSE [articles |-> deduplicateArticles(AllArticles(outcomes)),
               cache |-> [present |-> TRUE,
                          articles |-> deduplicateArticles(AllArticles(outcomes)),
                          cachedAt |-> now],
               aggregated |-> TRUE]

NewsFrame ==
    /\ UNCHANGED <<mapRun, aiCache, lastAIGet, genCalls, tunerRun>>
    /\ UNCHANGED <<engineVars, genVars, schedVars, persistVars, agentVars, marketVars>>

FetchLatestNews(configured, outcomes) ==
    /\ \E r \in {fetchLatestNews(newsCache, clock, configured, outcomes)} :
          /\ newsCache' = r.cache
          /\ newsRun' = [called |-> TRUE, aggregated |-> r.aggregated,
                         all |-> AllArticles(outcomes),
                         allFailed |-> outcomes[1].failed /\ outcomes[2].failed,
                         failed |-> {i \in 1..2 : outcomes[i].failed},
                         result |-> r.articles, cacheBefore |-> newsCache]
    /\ UNCHANGED <<agentCache, arrays, lastGet, clock>>
    /\ NewsFrame

\* time passes between calls
NewsClockTicks ==
    /\ clock + NewsTickMs <= MaxNewsClock
    /\ clock' = clock + NewsTickMs
    /\ UNCHANGED <<agentCache, arrays, lastGet, newsCache, newsRun>>
    /\ NewsFrame

NewsInit ==
    /\ mapRun = NoMapRun
    /\ newsCache = NoNewsCache
    /\ newsRun = NoNewsRun
    /\ aiCache = <<>>
    /\ lastAIGet = NoAIGet
    /\ genCalls = <<>>
    /\ tunerRun = NoTunerRun
    /\ saveLog = <<>>
    /\ lastLoad = NoLoad
    /\ agentRun = NoAgentRun
    /\ lastFetch = NoFetch
    /\ refreshed = NoRefresh
    /\ fetching = 0
    /\ CacheIdle
    /\ EngineIdle
    /\ GenIdle
    /\ SchedIdle

NewsNext ==
    \/ \E configured \in BOOLEAN, o1 \in ProviderOutcomes, o2 \in ProviderOutcomes :
          FetchLatestNews(configured, <<o1, o2>>)
    \/ NewsClockTicks

SpecNews == NewsInit /\ [][NewsNext]_vars

(***************************************************************************)
(* AI decision cache (ai-cache.ts)                                          *)
(***************************************************************************)
AI_CACHE_TTL == 30000
DocumentedAITtl == 300000
AITickMs == 15000
MaxAIClock == 60000

AIAgents == {"GROK_4"}
AIMarkets == {"m1", "m2"}
AIDecisions == {"d1", "d2"}

\* ai-cache.ts 24, 47: the key `${agentId}:${marketId}`
AIKey(agentId, marketId) == <<agentId, marketId>>

NoDecision == [hit |-> FALSE]

\* Map.delete(key)
AIDelete(map, key) ==
    IF DOMAIN map \subseteq {key} THEN <<>>
    ELSE [k \in DOMAIN map \ {key} |-> map[k]]

\* ai-cache.ts 23-38
getCachedAIDecision(map, agentId, marketId, now) ==
    IF AIKey(agentId, marketId) \notin DOMAIN map
    THEN [result |-> NoDecision, map |-> map]
    ELSE IF now - map[AIKey(agentId, marketId)].cachedAt >= AI_CACHE_TTL
         THEN [result |-> NoDecision, map |-> AIDelete(map, AIKey(agentId, marketId))]
         ELSE [result |-> [hit |-> TRUE, decision |-> map[AIKey(agentId, marketId)].decision],
               map |-> map]

\* ai-cache.ts 43-53
setCachedAIDecision(map, agentId, marketId, decision, now) ==
    [k \in DOMAIN map \cup {AIKey(agentId, marketId)} |->
        IF k = AIKey(agentId, marketId)
        THEN [decision |-> decision, cachedAt |-> now]
        ELSE map[k]]

AIFrame ==
    /\ UNCHANGED <<mapRun, newsCache, newsRun, genCalls, tunerRun>>
    /\ UNCHANGED <<agentCache, arrays, lastGet>>
    /\ UNCHANGED <<engineVars, genVars, schedVars, persistVars, agentVars, marketVars>>

GetCachedAIDecision(agentId, marketId) ==
    /\ \E r \in {getCachedAIDecision(aiCache, agentId, marketId, clock)} :
          /\ aiCache' = r.map
          /\ lastAIGet' = [called |-> TRUE, key |-> AIKey(agentId, marketId),
                           stored |-> AIKey(agentId, marketId) \in DOMAIN aiCache,
                           entry |-> IF AIKey(agentId, marketId) \in DOMAIN aiCache
                                     THEN aiCache[AIKey(agentId, marketId)]
                                     ELSE [decision |-> "", cachedAt |-> 0],
                           at |-> clock, result |-> r.result]
    /\ UNCHANGED clock
    /\ AIFrame

SetCachedAIDecision(agentId, marketId, decision) ==
    /\ aiCache' = setCachedAIDecision(aiCache, agentId, marketId, decision, clock)
    /\ UNCHANGED <<clock, lastAIGet>>
    /\ AIFrame

\* ai-cache.ts 58-60
ClearAICache ==
    /\ aiCache' = <<>>
    /\ UNCHANGED <<clock, lastAIGet>>
    /\ AIFrame

AIClockTicks ==
    /\ clock + AITickMs <= MaxAIClock
    /\ clock' = clock + AITickMs
    /\ UNCHANGED <<aiCache, lastAIGet>>
    /\ AIFrame

AICacheInit ==
    /\ mapRun = NoMapRun
    /\ newsCache = NoNewsCache
    /\ newsRun = NoNewsRun
    /\ aiCache = <<>>
    /\ lastAIGet = NoAIGet
    /\ genCalls = <<>>
    /\ tunerRun = NoTunerRun
    /\ saveLog = <<>>
    /\ lastLoad = NoLoad
    /\ agentRun = NoAgentRun
    /\ lastFetch = NoFetch
    /\ refreshed = NoRefresh
    /\ fetching = 0
    /\ CacheIdle
    /\ EngineIdle
    /\ GenIdle
    /\ SchedIdle

AICacheNext ==
    \/ \E a \in AIAgents, m \in AIMarkets : GetCachedAIDecision(a, m)
    \/ \E a \in AIAgents, m \in AIMarkets, d \in AIDecisions : SetCachedAIDecision(a, m, d)
    \/ ClearAICache
    \/ AIClockTicks

SpecAICache == AICacheInit /\ [][AICacheNext]_vars

(***************************************************************************)
(* Concurrent generateAgentTrades calls (generator, cache.ts)               *)
(***************************************************************************)
MaxCalls == 3

\* the trades one generation produces (opaque)
GeneratedTrades == <<"t1">>

ConcFrame ==
    /\ UNCHANGED <<mapRun, newsCache, newsRun, aiCache, lastAIGet, tunerRun>>
    /\ UNCHANGED <<engineVars, genVars, schedVars, persistVars, agentVars, marketVars>>

\* generateAgentTrades is called and awaits fetchAllMarkets and fetchLatestNews;
\* `running` is a history field: the calls that have not returned yet
CallStarts(agentId) ==
    /\ Len(genCalls) < MaxCalls
    /\ genCalls' = Append(genCalls,
                      [agentId |-> agentId, pc |-> "fetching", from |-> "none",
                       trades |-> <<>>,
                       running |-> {i \in 1..Len(genCalls) : genCalls[i].pc # "done"}])
    /\ UNCHANGED <<clock, agentCache, arrays, lastGet>>
    /\ ConcFrame

\* the awaited data arrives: the cache check, and on a miss the synchronous
\* part up to the first awaited generateTradeForMarket
CallChecksCache(i) ==
    /\ i \in 1..Len(genCalls)
    /\ genCalls[i].pc = "fetching"
    /\ \E r \in {CacheLookup(agentCache[genCalls[i].agentId],
                             StoredIds(agentCache[genCalls[i].agentId]),
                             arrays[CallerRef], clock)} :
          /\ agentCache' = IF r.deleted
                           THEN [agentCache EXCEPT ![genCalls[i].agentId] = NoEntry]
                           ELSE agentCache
          /\ arrays' = IF r.deleted
                       THEN [arrays EXCEPT ![agentCache[genCalls[i].agentId].marketIds] = <<>>]
                       ELSE arrays
          /\ genCalls' = [genCalls EXCEPT ![i] =
                            IF r.hit
                            THEN [@ EXCEPT !.pc = "done", !.from = "cache", !.trades = r.trades]
                            ELSE [@ EXCEPT !.pc = "generating"]]
    /\ UNCHANGED <<clock, lastGet>>
    /\ ConcFrame

\* the awaited generateTradeForMarket calls finish; the result is cached and
\* returned
CallGenerates(i) ==
    /\ i \in 1..Len(genCalls)
    /\ genCalls[i].pc = "generating"
    /\ \E e \in {NewEntry(genCalls[i].agentId, GeneratedTrades, CallerRef, clock, arrays)} :
          /\ agentCache' = [agentCache EXCEPT ![genCalls[i].agentId] = e]
          /\ arrays' = [arrays EXCEPT ![e.marketIds] = arrays[CallerRef]]
    /\ genCalls' = [genCalls EXCEPT ![i] =
                      [@ EXCEPT !.pc = "done", !.from = "generated", !.trades = GeneratedTrades]]
    /\ UNCHANGED <<clock, lastGet>>
    /\ ConcFrame

ConcInit ==
    /\ mapRun = NoMapRun
    /\ newsCache = NoNewsCache
    /\ newsRun = NoNewsRun
    /\ aiCache = <<>>
    /\ lastAIGet = NoAIGet
    /\ genCalls = <<>>
    /\ tunerRun = NoTunerRun
    /\ saveLog = <<>>
    /\ lastLoad = NoLoad
    /\ agentRun = NoAgentRun
    /\ lastFetch = NoFetch
    /\ refreshed = NoRefresh
    /\ fetching = 0
    /\ CacheIdle
    /\ EngineIdle
    /\ GenIdle
    /\ SchedIdle

ConcNext ==
    \/ \E a \in CacheAgents : CallStarts(a)
    \/ \E i \in 1..MaxCalls : CallChecksCache(i)
    \/ \E i \in 1..MaxCalls : CallGenerates(i)
    \/ AdvanceClock

SpecConc == ConcInit /\ [][ConcNext]_vars

(***************************************************************************)
(* Adaptive tuner: computePerformanceSnapshot. Times are counted in days    *)
(* (one unit is 24 * 60 * 60 * 1000 ms).                                    *)
(***************************************************************************)
THIRTY_DAYS == 30
TunerNow == 40
MaxTunerTrades == 2

\* closedAt = 0 is a missing closedAt; an OPEN trade has no pnlUsd
OpenRecord(openedAt) ==
    [id |-> 0, openedAt |-> openedAt, closedAt |-> 0, status |-> "OPEN",
     hasPnl |-> FALSE, pnlUsd |-> 0]
ClosedRecord(openedAt, closedAt, pnlUsd) ==
    [id |-> 0, openedAt |-> openedAt, closedAt |-> closedAt, status |-> "CLOSED",
     hasPnl |-> TRUE, pnlUsd |-> pnlUsd]

TunerRecords ==
    {OpenRecord(o) : o \in {5, 20}} \cup
    {r \in {ClosedRecord(o, c, p) : o \in {5, 20}, c \in {8, 25, 35}, p \in {-100, 50}} :
        r.openedAt <= r.closedAt}

RECURSIVE TunerLists(_)
TunerLists(n) ==
    IF n = 0 THEN {<<>>}
    ELSE TunerLists(n - 1) \cup
         {Append(l, r) : l \in {k \in TunerLists(n - 1) : Len(k) = n - 1}, r \in TunerRecords}

\* the trade histories handed to the tuner; id is the position in the list
TunerHistories ==
    {[i \in 1..Len(l) |-> [l[i] EXCEPT !.id = i]] : l \in TunerLists(MaxTunerTrades)}

\* adaptive tuner 103-106
IsRecent(t, now) == t.openedAt >= now - THIRTY_DAYS
\* adaptive tuner 109
IsClosedWithPnl(t) == t.status = "CLOSED" /\ t.hasPnl
\* adaptive tuner 121-123: closedAt || openedAt
SortTime(t) == IF t.closedAt # 0 THEN t.closedAt ELSE t.openedAt

\* Array.prototype.sort with that comparator (stable)
RECURSIVE InsertByTime(_, _)
InsertByTime(sorted, t) ==
    IF sorted = <<>> THEN <<t>>
    ELSE IF SortTime(t) < SortTime(Head(sorted))
         THEN <<t>> \o sorted
         ELSE <<Head(sorted)>> \o InsertByTime(Tail(sorted), t)

RECURSIVE SortByTime(_)
SortByTime(list) ==
    IF list = <<>> THEN <<>>
    ELSE InsertByTime(SortByTime(SubSeq(list, 1, Len(list) - 1)), list[Len(list)])

\* adaptive tuner 117-128: the drawdown loop
RECURSIVE DrawdownLoop(_, _, _, _, _)
DrawdownLoop(list, runningPnL, peakPnL, maxDrawdown, startingCapital) ==
    IF list = <<>> THEN maxDrawdown
    ELSE LET running == runningPnL + Head(list).pnlUsd
             peak == IF peakPnL < running THEN running ELSE peakPnL
             drawdown == IF peak > 0 THEN Frac(peak - running, startingCapital + peak)
                         ELSE Whole(0)
         IN DrawdownLoop(Tail(list), running, peak, MathMax(maxDrawdown, drawdown),
                         startingCapital)

\* adaptive tuner 94-146
computePerformanceSnapshot(trades, startingCapital, now) ==
    LET recentTrades == SelectSeq(trades, LAMBDA t : IsRecent(t, now))
        closedTrades == SelectSeq(recentTrades, IsClosedWithPnl)
        sorted == SortByTime(closedTrades)
    IN [closedTrades |-> sorted,
        maxDrawdownPct30d |-> DrawdownLoop(sorted, 0, 0, Whole(0), startingCapital)]

ComputePerformanceSnapshot ==
    /\ ~tunerRun.done
    /\ tunerRun' = [done |-> TRUE, trades |-> tunerRun.trades, now |-> TunerNow,
                    snapshot |-> computePerformanceSnapshot(tunerRun.trades,
                                                            STARTING_CAPITAL, TunerNow)]
    /\ UNCHANGED <<mapRun, newsCache, newsRun, aiCache, lastAIGet, genCalls>>
    /\ UNCHANGED olderVars

TunerInit ==
    /\ tunerRun \in {[NoTunerRun EXCEPT !.trades = h] : h \in TunerHistories}
    /\ mapRun = NoMapRun
    /\ newsCache = NoNewsCache
    /\ newsRun = NoNewsRun
    /\ aiCache = <<>>
    /\ lastAIGet = NoAIGet
    /\ genCalls = <<>>
    /\ saveLog = <<>>
    /\ lastLoad = NoLoad
    /\ agentRun = NoAgentRun
    /\ lastFetch = NoFetch
    /\ refreshed = NoRefresh
    /\ fetching = 0
    /\ CacheIdle
    /\ EngineIdle
    /\ GenIdle
    /\ SchedIdle

TunerNext == ComputePerformanceSnapshot

SpecTuner == TunerInit /\ [][TunerNext]_vars

(***************************************************************************)
(* Claims about the agent trade cache (checked under SpecCache)             *)
(***************************************************************************)
GetAge == lastGet.at - lastGet.entry.generatedAt

C5_HitIdsEqual ==
    (lastGet.called /\ lastGet.hit) =>
        /\ MarketIdsMatch(lastGet.entry.idsAtSet, lastGet.ids)
        /\ lastGet.stored = lastGet.entry.idsAtSet

\* a hit although the caller's array no longer holds the ids it passed
C5_Witness ==
    /\ lastGet.called
    /\ lastGet.hit
    /\ arrays[CallerRef] # lastGet.entry.idsAtSet

(***************************************************************************)
(* Claims about generateTradeForMarket (checked under SpecEngine)           *)
(***************************************************************************)
BothRan == Len(engineRuns) = 2
Run1 == engineRuns[1]
Run2 == engineRuns[2]
SameOutcome(a, b) ==
    /\ a.result.kind = b.result.kind
    /\ a.result.kind = "trade" => a.result.trade = b.result.trade

\* C6: two executions of generateTradeForMarket in fallback mode with identical
\* agent, scored market, news, index and now produce identical trades in every
\* field, whatever the web search returns and whenever they run.
C6_FallbackDeterministic ==
    (/\ BothRan
     /\ Run1.aiConfigured = Run2.aiConfigured
     /\ Run1.result.fallback /\ Run2.result.fallback) => SameOutcome(Run1, Run2)

\* two fallback executions that both produced a trade, with different web results
C6_Witness ==
    /\ BothRan
    /\ Run1.aiConfigured = Run2.aiConfigured
    /\ Run1.result.fallback /\ Run2.result.fallback
    /\ Run1.result.kind = "trade" /\ Run2.result.kind = "trade"
    /\ Run1.web # Run2.web

\* C7: the trade of an agent without LLM credential is identical to the trade
\* produced when the LLM is configured but its call fails, whatever the web
\* search returned.
C7_FallbackRoundTrip ==
    (/\ BothRan
     /\ ~Run1.aiConfigured
     /\ Run2.aiConfigured /\ ~Run2.ai.ok) => SameOutcome(Run1, Run2)

\* a trade without credential and the same trade after a failed LLM call that had
\* web results
C7_Witness ==
    /\ BothRan
    /\ ~Run1.aiConfigured
    /\ Run2.aiConfigured /\ ~Run2.ai.ok
    /\ Run1.result.kind = "trade" /\ Run2.result.kind = "trade"
    /\ Run2.web.results > 0 /\ ~Run1.web.throws /\ Run1.web.results = 0

\* C8: when the LLM call for a market fails, no second LLM call is made for that
\* market, and the trade is still produced with the deterministic fallback side,
\* confidence and reasoning: the market is not skipped and no error reaches the
\* generator.
C8_FailedLLMStillTrades ==
    \A i \in 1..Len(engineRuns) :
        LET r == engineRuns[i]
        IN (r.aiConfigured /\ ~r.ai.ok /\ r.scored.score >= SCORE_THRESHOLD) =>
               /\ r.result.llmCalls = 1
               /\ r.result.kind = "trade"
               /\ r.result.fallback

\* C10: every trade produced by generateTradeForMarket has investmentUsd at most
\* 20% of the starting capital (600 USD), after rounding to the nearest 10.
C10_SingleMarketCap ==
    \A i \in 1..Len(engineRuns) :
        engineRuns[i].result.kind = "trade" =>
            /\ Leq(Whole(engineRuns[i].result.trade.investmentUsd), MAX_INVESTMENT)
            /\ engineRuns[i].result.trade.investmentUsd <= 600

\* a trade whose size is exactly the cap, on a market with the largest variation
C10_Witness ==
    \E i \in 1..Len(engineRuns) :
        /\ engineRuns[i].result.kind = "trade"
        /\ engineRuns[i].result.trade.investmentUsd = 600
        /\ engineRuns[i].scored.idCode % 20 = 19

(***************************************************************************)
(* Claims about generateAgentTrades (checked under SpecGen)                 *)
(***************************************************************************)
\* the documented total-exposure limits, in percent of the capital
MAX_TOTAL_EXPOSURE_PCT(risk) ==
    IF risk = "HIGH" THEN 70 ELSE IF risk = "MEDIUM" THEN 60 ELSE 50

\* the sum of investmentUsd over the OPEN trades of a list
RECURSIVE OpenExposureUsd(_)
OpenExposureUsd(trades) ==
    IF trades = <<>> THEN 0
    ELSE (IF Head(trades).status = "OPEN" THEN Head(trades).investmentUsd ELSE 0)
         + OpenExposureUsd(Tail(trades))

C1_AtMostOneCycle == inFlight <= 1

\* a tick has just arrived during a running cycle and was skipped
C1_Witness == ticks.last = "skipped" /\ inFlight = 1 /\ cycle.pc = "agents"

\* C2: the list runTradingCycle returns has exactly one result per agent id, in
\* agent-list order, and an agent's result has success=false exactly when that
\* agent's own cycle failed, whatever happened to the other agents.
C2_FailuresIsolated ==
    lastCycle.returned =>
        /\ Len(lastCycle.results) = Len(ALL_AGENT_IDS)
        /\ \A k \in 1..Len(ALL_AGENT_IDS) :
              k <= Len(lastCycle.results) =>
                 /\ lastCycle.results[k].agentId = ALL_AGENT_IDS[k]
                 /\ lastCycle.results[k].success
                        = (lastCycle.outcomes[ALL_AGENT_IDS[k]] = "ok")

\* a cycle returned in which one agent cycle was rejected, one failed inside its
\* try block and one succeeded
C2_Witness ==
    /\ lastCycle.returned
    /\ \E a, b, c \in AgentIdSet :
          /\ lastCycle.outcomes[a] = "rejected"
          /\ lastCycle.outcomes[b] = "caught"
          /\ lastCycle.outcomes[c] = "ok"

\* C3: within one trading cycle every agent trades against the market list that
\* runTradingCycle fetched: no agent observes another market snapshot, even if
\* the market cache expires or the upstream fails during the cycle.
C3_SingleSnapshot ==
    \A a \in AgentIdSet :
        cycle.agent[a].st = "generating" => cycle.agent[a].obs = cycle.markets

\* C11: generateAgentTrades never returns more than agent.maxTrades trades, and
\* every returned trade carries the requested agent id, for freshly generated
\* and for cache-served results alike.
C11_AtMostMaxTrades ==
    gen.pc = "returned" =>
        /\ Len(gen.result) <= getAgentProfile(gen.agentId).maxTrades
        /\ \A k \in 1..Len(gen.result) : gen.result[k].agentId = gen.agentId

\* a cache-served result that holds exactly maxTrades trades, taken from more
\* candidates than that
C11_Witness ==
    /\ gen.pc = "returned"
    /\ gen.cached
    /\ Len(gen.result) = getAgentProfile(gen.agentId).maxTrades
    /\ Len(agentCache[gen.agentId].idsAtSet) > getAgentProfile(gen.agentId).maxTrades

\* C12: cold start with a single candidate market that passes the agent's
\* filter and the score threshold, no news and no LLM credential:
\* generateAgentTrades returns exactly one trade, on that market, with status
\* OPEN, pnl null and size at most 600.
C12_ColdStartSingleMarket ==
    (/\ gen.pc = "returned"
     /\ gen.calls = 1
     /\ ~gen.aiConfigured
     /\ arrays[CallerRef] = CurrentMarketIds(PoolSingle)) =>
        /\ Len(gen.result) = 1
        /\ \A k \in 1..Len(gen.result) :
              /\ gen.result[k].marketId = PoolSingle[1].id
              /\ gen.result[k].status = "OPEN"
              /\ gen.result[k].pnl = NullPnl
              /\ gen.result[k].investmentUsd <= 600

\* C13: persistence is an idempotent upsert: once saveTrade has been applied
\* twice to a trade, loadTrades for the trade's agent holds exactly one record
\* with the trade's id; and a saveTrade that would turn a stored CLOSED trade
\* back to OPEN is rejected.
SavedTwice(i, j) ==
    /\ i < j
    /\ saveLog[i].trade = saveLog[j].trade
Reopens(i, j) ==
    /\ i < j
    /\ saveLog[i].trade.id = saveLog[j].trade.id
    /\ saveLog[i].trade.agentId = saveLog[j].trade.agentId
    /\ saveLog[i].trade.status = "CLOSED"
    /\ saveLog[j].trade.status = "OPEN"
C13_IdempotentUpsert ==
    \A i, j \in 1..Len(saveLog) :
        /\ (SavedTwice(i, j) /\ lastLoad.called
                /\ lastLoad.agentId = saveLog[i].trade.agentId) =>
              Cardinality({k \in 1..Len(lastLoad.result) :
                              lastLoad.result[k].id = saveLog[i].trade.id}) = 1
        /\ Reopens(i, j) => saveLog[j].rejected

\* C14: portfolio identity: the portfolio that runAgentCycle hands to
\* savePortfolio has currentCapitalUsd = startingCapitalUsd + realizedPnlUsd,
\* and its realizedPnlUsd is the sum of the PnL of the agent's CLOSED trades.
RECURSIVE SumClosedPnl(_)
SumClosedPnl(trades) ==
    IF trades = <<>> THEN Whole(0)
    ELSE Add(IF Head(trades).status = "CLOSED" THEN Head(trades).pnl.value ELSE Whole(0),
             SumClosedPnl(Tail(trades)))
ExitDue(side, probability) ==
    IF side = "YES"
    THEN Leq(Frac(85, 100), probability) \/ Leq(probability, Frac(35, 100))
    ELSE Leq(probability, Frac(15, 100)) \/ Leq(Frac(65, 100), probability)
C17_ErrorsBecomeResults ==
    (agentRun.pc = "resolved" /\ agentRun.failedAt # "none") =>
        /\ agentRun.result.settled = "fulfilled"
        /\ agentRun.result.agentId = agentRun.agentId
        /\ agentRun.result.success = FALSE
        /\ agentRun.result.candidateMarkets = 0
        /\ agentRun.result.newTrades = 0
        /\ agentRun.result.closedTrades = 0
        /\ agentRun.result.openPositions = 0
        /\ agentRun.result.error.defined
        /\ agentRun.result.error.message =
              CASE agentRun.failedAt = "load" -> "getPortfolio"
                [] agentRun.failedAt = "metrics" -> "updatePortfolioMetrics"
                [] agentRun.failedAt = "generate" -> "generateAgentTrades"
                [] agentRun.failedAt = "save" -> "savePortfolio"
\* savePortfolio rejects after the generator has returned trades for markets
\* that pass the agent's filter
C17_Witness ==
    /\ agentRun.pc = "resolved"
    /\ agentRun.failedAt = "save"
    /\ Len(agentRun.trades) > 0
    /\ Len(filterCandidateMarkets(getAgentProfile(agentRun.agentId), agentRun.markets)) > 0
    /\ agentRun.result.success = FALSE

\* C18: when savePortfolio fails, the agent's in-memory state is what it was
\* before the cycle started: the agent-trade cache entry has not been written
\* by the failed cycle.
C18_FailedSaveLeavesCache ==
    (agentRun.pc = "resolved" /\ agentRun.failedAt = "save") =>
        agentCache[agentRun.agentId] = agentRun.cacheBefore

\* C16: a timer tick that arrives during an in-flight cycle is dropped, not
\* queued: the number of cycles ever started is at most one (the startup run)
\* plus the number of ticks that fired while no cycle was running, and between
\* the end of a cycle and the next tick no cycle is running.
C16_SkippedTicksDropped ==
    /\ ticks.cycles <= 1 + ticks.idle
    /\ lastCycle.returned => (~isRunning /\ cycle.pc = "idle")
\* a tick was dropped during a cycle, the cycle finished, and the next tick
\* started the second cycle
C16_Witness ==
    /\ ticks.count = 2
    /\ ticks.idle = 1
    /\ ticks.cycles = 2
    /\ ticks.last = "started"

\* C19: after the stop function has been called no new cycle is started, and a
\* cycle in flight at that moment is cancelled: it does not run to completion.
C19_StopCancelsCycle ==
    (started /\ ~intervalId) =>
        /\ ticks.last # "started"
        /\ ~lastCycle.returned

\* C20 as stated: fetchAllMarkets never throws; when the upstream fetch or the
\* mapping fails it returns the markets of the last successful refresh, however
\* old, and it returns the empty list only if no refresh has ever succeeded.
C20_StaleOrEmptyIfNeverRefreshed ==
    (lastFetch.called /\ lastFetch.failed) =>
        /\ lastFetch.settled = "fulfilled"
        /\ lastFetch.before.ever => lastFetch.markets = lastFetch.before.markets
        /\ lastFetch.markets = 0 => ~lastFetch.before.ever

\* C20 amended: fetchAllMarkets never throws; when the upstream fetch or the
\* mapping fails it returns the markets of the last successful refresh, however
\* old, which is the empty list when that refresh yielded no market, and the
\* empty list when no refresh has ever succeeded.
C20_StaleOrEmpty ==
    (lastFetch.called /\ lastFetch.failed) =>
        /\ lastFetch.settled = "fulfilled"
        /\ lastFetch.markets = IF lastFetch.before.ever THEN lastFetch.before.markets
                               ELSE 0
\* the upstream fails when the cached list is older than 60 s, and the call
\* returns that list
C20_Witness ==
    /\ lastFetch.called
    /\ lastFetch.failed
    /\ lastFetch.before.ever
    /\ lastFetch.age >= MARKET_CACHE_TTL
    /\ lastFetch.markets = lastFetch.before.markets
    /\ lastFetch.markets # 0

\* C21 as stated: any two fetchAllMarkets calls that both happen less than
\* 60 s after the same successful refresh return the identical cached list
\* object and make no upstream request; a call at or after 60 s attempts a
\* refresh.
C21_WindowOfAnyRefresh ==
    lastFetch.called =>
        IF lastFetch.freshAtCall
        THEN /\ lastFetch.upstreamCalls = 0
             /\ \A earlier \in lastFetch.seen \cup {<<lastFetch.prevRef, lastFetch.at>>} :
                   (earlier[1] > 0 /\ lastFetch.at - earlier[2] < MARKET_CACHE_TTL) =>
                       lastFetch.ref = earlier[1]
        ELSE lastFetch.upstreamCalls = 1

\* C21 amended: a fetchAllMarkets call made less than 60 s after the refresh
\* that completed last makes no upstream request and returns the list object
\* the cache holds, which is the object of that refresh; two such calls with no
\* refresh completing between them return the identical object; a call at or
\* after 60 s, or without a cache, attempts a refresh.
C21_FreshWindowByIdentity ==
    lastFetch.called =>
        IF lastFetch.freshAtCall
        THEN /\ lastFetch.upstreamCalls = 0
             /\ lastFetch.ref = lastFetch.cacheRef
             /\ marketCache.ref = lastFetch.cacheRef
             /\ lastFetch.prevRef = lastFetch.cacheRef => lastFetch.ref = lastFetch.prevRef
        ELSE lastFetch.upstreamCalls = 1
\* a second call inside the window of a refresh returns the object the call
\* before it returned
C21_Witness ==
    /\ lastFetch.called
    /\ lastFetch.freshAtCall
    /\ lastFetch.age > 0
    /\ lastFetch.upstreamCalls = 0
    /\ lastFetch.ref > 0
    /\ lastFetch.prevRef = lastFetch.ref

\* C26: getCachedAgentTrades never returns an empty trade list whose entry is
\* younger than 10 s: the lookup returns null and removes the entry; an empty
\* list aged 10 s or more, on an entry that is otherwise valid, is returned.
C26_EmptyListRefusedWhenYoung ==
    (lastGet.called /\ lastGet.entry.present /\ Len(lastGet.entry.trades) = 0) =>
        /\ GetAge < EMPTY_RETRY_AGE_S * 1000 =>
              /\ ~lastGet.hit
              /\ agentCache[lastGet.agentId] = NoEntry
        /\ (/\ GetAge >= EMPTY_RETRY_AGE_S * 1000
            /\ GetAge <= FRESH_AI_AGE_S * 1000
            /\ lastGet.stored = lastGet.ids) =>
              /\ lastGet.hit
              /\ lastGet.trades = <<>>
              /\ agentCache[lastGet.agentId] = lastGet.entry
\* an empty list that is exactly 10 s old is returned
C26_Witness ==
    /\ lastGet.called
    /\ lastGet.entry.present
    /\ Len(lastGet.entry.trades) = 0
    /\ GetAge = EMPTY_RETRY_AGE_S * 1000
    /\ lastGet.hit

\* C22: on a market refresh a raw record is dropped whenever its identifier,
\* question, volume or probability is missing or not a number, so every market
\* of the returned list comes from a raw record that carried all four fields.
CarriesAllFields(raw) ==
    /\ raw.id = "present"
    /\ raw.question = "present"
    /\ raw.volume = "number"
    /\ raw.probability = "number"
C22_IncompleteRecordsDropped ==
    mapRun.done =>
        \A k \in 1..Len(mapRun.markets) : CarriesAllFields(mapRun.markets[k].raw)

(***************************************************************************)
(* Claims about news aggregation (checked under SpecNews)                   *)
(***************************************************************************)
\* the first article of the aggregated input that satisfies Keep and has the
\* normalized title n (0 when there is none)
FirstAt(all, n, Keep(_)) ==
    IF \E i \in 1..Len(all) : Normalized(all[i].title) = n /\ Keep(all[i].title)
    THEN CHOOSE i \in 1..Len(all) :
             /\ Normalized(all[i].title) = n /\ Keep(all[i].title)
             /\ \A j \in 1..(i - 1) : ~(Normalized(all[j].title) = n /\ Keep(all[j].title))
    ELSE 0

NoTwoSameTitle(list) ==
    \A i, j \in 1..Len(list) :
        Normalized(list[i].title) = Normalized(list[j].title) => i = j

AnyTitle(title) == TRUE

\* C23: in fetchLatestNews a failing provider does not remove the articles of
\* the providers that succeeded; and when every configured provider fails while
\* a previous (expired) news cache exists, the call returns that stale cached
\* list instead of an empty list and does not overwrite the cache with an empty
\* list.
C23_FailuresKeepNews ==
    (newsRun.called /\ newsRun.aggregated) =>
        /\ \A i \in 1..Len(newsRun.all) :
              Truthy(newsRun.all[i].title) =>
                  \E k \in 1..Len(newsRun.result) :
                      Normalized(newsRun.result[k].title) = Normalized(newsRun.all[i].title)
        /\ (newsRun.allFailed /\ newsRun.cacheBefore.present) =>
              /\ newsRun.result = newsRun.cacheBefore.articles
              /\ newsCache.articles = newsRun.cacheBefore.articles

C25_ReturnedForFiveMinutes ==
    (lastAIGet.called /\ lastAIGet.stored) =>
        IF lastAIGet.at - lastAIGet.entry.cachedAt < DocumentedAITtl
        THEN lastAIGet.result = [hit |-> TRUE, decision |-> lastAIGet.entry.decision]
        ELSE lastAIGet.result = NoDecision

(***************************************************************************)
(* Claims about concurrent generation (checked under SpecConc)              *)
(***************************************************************************)
\* call j was started while call i of the same agent had not returned
Concurrent(i, j) ==
    /\ i \in genCalls[j].running
    /\ genCalls[i].agentId = genCalls[j].agentId

Generates(i) == genCalls[i].pc = "generating" \/ genCalls[i].from = "generated"

\* C27: when several generateAgentTrades calls for the same agent run
\* concurrently against the same unchanged market list, only the first one
\* performs trade generation; the others return the cached trades, so upstream
\* usage is the same as for a single call.
C27_OnlyFirstGenerates ==
    \A i, j \in 1..Len(genCalls) :
        Concurrent(i, j) => ~(Generates(i) /\ Generates(j))

SnapshotIds ==
    {tunerRun.snapshot.closedTrades[k].id : k \in 1..Len(tunerRun.snapshot.closedTrades)}

\* C29: the performance snapshot is computed from exactly the CLOSED trades
\* whose closedAt lies within the last 30 days: a trade opened more than 30
\* days ago but closed within the window is included, and a trade closed before
\* the window is excluded.
C29_WindowByClosedAt ==
    tunerRun.done =>
        SnapshotIds = {i \in 1..Len(tunerRun.trades) :
                          /\ tunerRun.trades[i].status = "CLOSED"
                          /\ tunerRun.trades[i].closedAt >= tunerRun.now - THIRTY_DAYS}

\* the cumulative realized PnL after the first k trades of the snapshot
RECURSIVE PathAt(_)
PathAt(k) ==
    IF k = 0 THEN 0 ELSE PathAt(k - 1) + tunerRun.snapshot.closedTrades[k].pnlUsd

\* C30: maxDrawdownPct30d is the worst dip of the cumulative realized-PnL path
\* below its running peak over the window, where the path starts at 0; in
\* particular a window consisting only of losing trades yields a strictly
\* positive drawdown.
C30_DrawdownFromZero ==
    tunerRun.done =>
        (Less(Whole(0), tunerRun.snapshot.maxDrawdownPct30d) <=>
            \E j, k \in 0..Len(tunerRun.snapshot.closedTrades) :
                j < k /\ PathAt(k) < PathAt(j))

(***************************************************************************)
(* Claims about the scheduler after a cycle ends (checked under SpecSched)  *)
(***************************************************************************)
CycleEnds == cycle.pc # "idle" /\ cycle'.pc = "idle"
TickFires == ticks'.count = ticks.count + 1

\* C31: a cycle that ends with an error leaves the scheduler able to run
\* again: after every cycle, whether runTradingCycle resolved or threw, the
\* in-flight flag is cleared, and the first timer tick after its end starts a
\* new cycle.
C31_RunsAgainAfterAnyCycle ==
    [][/\ CycleEnds => ~isRunning'
       /\ (TickFires /\ cycle.pc = "idle") =>
              (isRunning' /\ cycle'.pc = "fetching" /\ ticks'.last = "started")]_vars

\* a tick has started a new cycle after the previous one threw
C31_Witness ==
    /\ ticks.ended = "threw"
    /\ ticks.last = "started"
    /\ isRunning /\ cycle.pc = "fetching"

(***************************************************************************)
(* Claims about cache misses (checked under SpecCache)                      *)
(***************************************************************************)
\* C32: a lookup in the agent-trade cache that misses (expired, market-id list
\* of different length or content, older than 20 s, or young empty set)
\* deletes the agent's entry, a lookup on an agent without entry returns null,
\* so every later getCachedAgentTrades for that agent returns null until
\* setCachedAgentTrades is called again; entries of other agents are
\* unaffected.
C32_MissDeletesEntry ==
    [][lastGet'.called =>
          /\ ~lastGet'.hit => agentCache'[lastGet'.agentId] = NoEntry
          /\ ~agentCache[lastGet'.agentId].present => ~lastGet'.hit
          /\ \A b \in CacheAgents \ {lastGet'.agentId} : agentCache'[b] = agentCache[b]]_vars

\* a young, non-empty entry has just been removed by a lookup with another id
\* list, while the other agent keeps its entry
C32_Witness ==
    /\ lastGet.called /\ ~lastGet.hit
    /\ lastGet.entry.present
    /\ lastGet.entry.trades # <<>>
    /\ GetAge < EMPTY_RETRY_AGE_S * 1000
    /\ lastGet.stored # lastGet.ids
    /\ agentCache[lastGet.agentId] = NoEntry
    /\ \E b \in CacheAgents \ {lastGet.agentId} : agentCache[b].present

(***************************************************************************)
(* Claims about the order of generation (checked under SpecGen)             *)
(***************************************************************************)
\* C33: generateAgentTrades attempts trades in descending score order over the
\* top 2*maxTrades scored candidates: whenever a market produced a trade,
\* every candidate with a strictly higher score was attempted before it and
\* either produced a trade, was skipped by the score threshold, or failed with
\* an error.
C33_HighestScoresFirst ==
    /\ gen.attempts # <<>> =>
          Len(gen.attempts) <= 2 * getAgentProfile(gen.agentId).maxTrades
    /\ \A i, j \in 1..Len(gen.attempts) :
          i < j => gen.attempts[i].score >= gen.attempts[j].score
    /\ \A j \in 1..Len(gen.attempts) :
          gen.attempts[j].kind = "trade" =>
              \A k \in 1..Len(gen.candidates) :
                  gen.candidates[k].score > gen.attempts[j].score =>
                      \E i \in 1..(j - 1) :
                          /\ gen.attempts[i].id = gen.candidates[k].id
                          /\ gen.attempts[i].kind \in {"trade", "null", "throw"}

\* a generation that stopped at maxTrades trades with candidates left over,
\* all of them scored below every market that produced a trade
C33_Witness ==
    /\ gen.pc = "returned" /\ ~gen.cached
    /\ Len(gen.attempts) < Len(gen.candidates)
    /\ Len(gen.result) = getAgentProfile(gen.agentId).maxTrades
    /\ \A j \in 1..Len(gen.attempts) : gen.attempts[j].kind = "trade"
    /\ gen.candidates[1].id # gen.attempts[1].id
    /\ Len(gen.candidates) > 2 * getAgentProfile(gen.agentId).maxTrades

\* the attempts of the generation that produced a trade
TradeAttempts == {j \in 1..Len(gen.attempts) : gen.attempts[j].kind = "trade"}

\* C34: a market whose weighted score is below 8 never yields a trade:
\* generateTradeForMarket returns null for it before any web search or LLM
\* call is made, and it does not count toward maxTrades.
C34_LowScoreNeverTrades ==
    /\ \A j \in 1..Len(gen.attempts) :
          gen.attempts[j].score < 8 =>
              /\ gen.attempts[j].kind = "null"
              /\ gen.attempts[j].calls = 0
    /\ gen.pc = "loop" => Len(gen.trades) = Cardinality(TradeAttempts)
    /\ (gen.pc = "returned" /\ ~gen.cached) =>
          /\ Len(gen.result) = Cardinality(TradeAttempts)
          /\ \A k \in 1..Len(gen.result) :
                \E j \in TradeAttempts :
                    /\ gen.attempts[j].id = gen.result[k].marketId
                    /\ gen.attempts[j].score >= 8

\* a generation that made trades and skipped a market scored below 8
C34_Witness ==
    /\ gen.pc = "returned" /\ ~gen.cached
    /\ Len(gen.result) > 0
    /\ \E j \in 1..Len(gen.attempts) :
          gen.attempts[j].score < 8 /\ gen.attempts[j].kind = "null"

(***************************************************************************)
(* Claims about the trade object and the fallback numbers (SpecEngine)      *)
(***************************************************************************)
\* C35: every trade returned by generateTradeForMarket satisfies: pnl is null
\* if and only if status is OPEN, and closedAt is set if and only if status is
\* CLOSED.
C35_PnlAndClosedAtFollowStatus ==
    \A i \in 1..Len(engineRuns) :
        engineRuns[i].result.kind = "trade" =>
            /\ engineRuns[i].result.trade.status \in {"OPEN", "CLOSED"}
            /\ engineRuns[i].result.trade.pnl.isNull <=>
                   engineRuns[i].result.trade.status = "OPEN"
            /\ engineRuns[i].result.trade.closedAt.defined <=>
                   engineRuns[i].result.trade.status = "CLOSED"

\* two calls that returned a closed trade with PnL and closedAt
C35_Witness ==
    /\ Len(engineRuns) = 2
    /\ engineRuns[1].result.kind = "trade"
    /\ engineRuns[2].result.kind = "trade"
    /\ \E i \in 1..2 :
          /\ engineRuns[i].result.trade.status = "CLOSED"
          /\ ~engineRuns[i].result.trade.pnl.isNull
          /\ engineRuns[i].result.trade.closedAt.defined

\* the confidence formula as documented: the risk adjustment is clamped before
\* the jitter is added
DocumentedConfidence(score, risk, jitterWord) ==
    LET raw == Frac(score, 100)
        adjusted == IF risk = "HIGH" THEN MathMin(Mul(raw, Frac(11, 10)), Frac(95, 100))
                    ELSE IF risk = "LOW" THEN MathMax(Mul(raw, Frac(9, 10)), Frac(4, 10))
                    ELSE raw
        jitter == Mul(Add(deterministicNumber(jitterWord), Neg(Frac(1, 2))), Frac(1, 10))
    IN MathMax(Frac(4, 10), MathMin(Frac(95, 100), Add(adjusted, jitter)))

\* C36: the fallback confidence equals clamp(adjusted + jitter, 0.40, 0.95),
\* where raw = score/100, adjusted is min(raw*1.10, 0.95) for HIGH risk,
\* max(raw*0.90, 0.40) for LOW risk and raw for MEDIUM risk, and jitter =
\* (draw01(seed + "jitter") - 0.5) * 0.10; in particular it always lies in
\* [0.40, 0.95].
C36_ConfidenceAsDocumented ==
    \A i \in 1..Len(engineRuns) :
        (engineRuns[i].result.kind # "null" /\ engineRuns[i].result.fallback) =>
            /\ Leq(Frac(4, 10), engineRuns[i].result.baseConfidence)
            /\ Leq(engineRuns[i].result.baseConfidence, Frac(95, 100))
            /\ engineRuns[i].result.baseConfidence =
                  DocumentedConfidence(
                      engineRuns[i].scored.score,
                      getAgentProfile(engineRuns[i].agentId).risk,
                      sha[JitterSeed(deterministicSeed(engineRuns[i].agentId,
                                                       engineRuns[i].scored.id,
                                                       engineRuns[i].index))])

\* C37: the deterministic draw used for fallback decisions lies in the
\* half-open interval [0,1): for every seed, deterministicNumber(seed) is at
\* least 0 and strictly less than 1, for every possible value of the 32-bit
\* hash word.
C37_DrawBelowOne ==
    \A seed \in DOMAIN sha :
        /\ Leq(Whole(0), deterministicNumber(sha[seed]))
        /\ Less(deterministicNumber(sha[seed]), Whole(1))

(***************************************************************************)
(* Claims about failed market refreshes (checked under SpecMarkets)         *)
(***************************************************************************)
\* C38: a failed market refresh leaves the market cache unchanged: neither the
\* cached list nor its cachedAt timestamp is modified, so after a failure on
\* an expired cache the cache is still expired and every following
\* fetchAllMarkets call attempts the upstream again (no negative caching),
\* while the failed call returns the same stale list.
C38_FailedRefreshKeepsCache ==
    [][(lastFetch'.called /\ lastFetch'.failed) =>
          /\ marketCache' = marketCache
          /\ ~MarketCacheFresh(marketCache, clock) => ~MarketCacheFresh(marketCache', clock')
          /\ lastFetch'.upstreamCalls = 1
          /\ lastFetch'.markets = IF marketCache.present THEN marketCache.markets ELSE 0]_vars

\* a refresh has failed on a list older than its window, the list is returned
\* and the cache still carries its old timestamp
C38_Witness ==
    /\ lastFetch.called /\ lastFetch.failed
    /\ lastFetch.upstreamCalls = 1
    /\ lastFetch.age > MARKET_CACHE_TTL
    /\ marketCache.present
    /\ marketCache.cachedAt = lastFetch.at - lastFetch.age
    /\ lastFetch.markets = marketCache.markets
    /\ lastFetch.markets # 0

(***************************************************************************)
(* Claims about the cycle record (checked under SpecAgent)                  *)
(***************************************************************************)
\* the OPEN trades of this cycle that the cycle before had not reported
OpenedThisCycle ==
    {k \in 1..Len(agentRun.trades) :
        /\ agentRun.trades[k].status = "OPEN"
        /\ \A j \in 1..Len(agentRun.prevOpen) :
               agentRun.prevOpen[j].id # agentRun.trades[k].id}

====
